---- MODULE Spec2Model ----
(***************************************************************************)
(* A model of the fireflies-meeting-analyzer core:                         *)
(*   - Meeting.get_lead_statements   (src/fireflies_client.py)             *)
(*   - AIAnalyzer._parse_response / _build_result / analyze_meetings       *)
(*                                    (src/ai_analyzer.py)                 *)
(*   - FirefliesClient requests and the fetch-analyze-export run of the    *)
(*     front ends                     (src/fireflies_client.py, cli.py,    *)
(*                                     app.py)                             *)
(*   - ReportExporter                 (src/exporter.py)                    *)
(* Names, emails and identifiers are sequences of one-character strings,   *)
(* so that str.lower() and the substring test `in` are computed.           *)
(*                                                                         *)
(* Specifications:                                                         *)
(*   SpecAttribution  one Meeting, one caller list, get_lead_statements    *)
(*   SpecIngestion    analyze_meetings from the LLM call on, per response  *)
(*   SpecBuild        _build_result per parsed object                      *)
(*   SpecAggregate    _build_result on many pain points and questions,     *)
(*                    once and again                                       *)
(*   SpecAnalyze      analyze_meetings as a whole, per meeting list        *)
(*   SpecRun          a run of the CLI command or the dashboard            *)
(*   SpecPaging       get_transcripts page by page (SpecPagingFair: with   *)
(*                    the loop not suspended for ever)                     *)
(*   SpecFetched      _parse_transcript, then get_lead_statements          *)
(*   SpecPrompt       _format_statements per statement list and budget     *)
(*   SpecExport       the JSON, Markdown and Excel exports of one result   *)
(***************************************************************************)
EXTENDS Integers, Sequences, FiniteSets, TLC

(***************************************************************************)
(* Bounds of the model.                                                    *)
(***************************************************************************)
MaxSpeakers == 2
MaxSentences == 2
MaxIdentifiers == 1
MaxNameLen == 2
MaxEmailLen == 1
MaxMeetings == 2
MaxLeadStatements == 2

(***************************************************************************)
(* Optional values (Python None / a value) and bounded sequences.          *)
(***************************************************************************)
None == [some |-> FALSE]
Some(x) == [some |-> TRUE, val |-> x]
Opt(S) == {None} \cup {Some(x) : x \in S}
SeqUpTo(S, n) == UNION {[1..k -> S] : k \in 0..n}

(***************************************************************************)
(* Strings: one letter in both cases is enough to tell case-sensitive from *)
(* case-insensitive matching.                                              *)
(***************************************************************************)
Alphabet == {"a", "A"}
NameStr == SeqUpTo(Alphabet, MaxNameLen)
\* an email address, when present, is not empty
EmailStr == SeqUpTo(Alphabet, MaxEmailLen) \ {<<>>}
\* what a caller types as a host identifier; may be the empty string
IdentifierStr == SeqUpTo(Alphabet, MaxEmailLen)

\* str.lower() on one character
LowerChar(c) == IF c = "A" THEN "a" ELSE IF c = "U" THEN "u" ELSE c

\* str.lower()
Lower(s) == [i \in 1..Len(s) |-> LowerChar(s[i])]

\* Python's `needle in hay` on strings; the empty needle is in every string
Contains(needle, hay) ==
    \E i \in 0..(Len(hay) - Len(needle)) :
        SubSeq(hay, i + 1, i + Len(needle)) = needle

\* Python truthiness of an Optional[str]: None and "" are falsy
Truthy(o) == o.some /\ o.val # <<>>

(***************************************************************************)
(* Transcript model.  A speaker's id is its position in Meeting.speakers;  *)
(* a sentence names a speaker id that may belong to no speaker.            *)
(***************************************************************************)
Speaker == [id : 1..MaxSpeakers, name : Opt(NameStr), email : Opt(EmailStr),
            is_host : BOOLEAN]
SpeakerLists ==
    {sp \in SeqUpTo(Speaker, MaxSpeakers) : \A i \in 1..Len(sp) : sp[i].id = i}
SpeakerIds == 1..(MaxSpeakers + 1)
Sentence == [index : 1..MaxSentences, speaker_id : SpeakerIds]
SentenceLists ==
    {st \in SeqUpTo(Sentence, MaxSentences) : \A i \in 1..Len(st) : st[i].index = i}

VARIABLES
    speakers,          \* Meeting.speakers
    sentences,         \* Meeting.sentences
    host_email,        \* Meeting.host_email
    organizer_email,   \* Meeting.organizer_email
    host_identifiers,  \* the caller's argument object (None or a list)
    host_speaker_ids,  \* the local host_speaker_ids of the last call
    lead_statements,   \* the value returned by the last call
    called,            \* get_lead_statements has returned at least once
    response,          \* what _call_ai gave: Some(text), or None when it raised
    meetings_count,    \* len(meetings) handed to _build_result
    lead_count,        \* len(lead_statements) handed to _build_result
    analysis_data,     \* the parsed object handed to _build_result
    raised,            \* the exception that left the operation, or "none"
    result,            \* the AnalysisResult returned, NoResult when it raised
    stage,             \* "start" before the operation, "done" after it
    meetings,          \* the Meeting list handed to analyze_meetings
    frontend,          \* "cli" (cli.py analyze) or "app" (app.py fetch_and_analyze)
    list_outcome,      \* what the transcript-list request meets at the source
    transcripts,       \* per fetched transcript, what its detail request meets
    pc,                \* position of the front-end run
    next_transcript,   \* index of the transcript the fetch loop handles next
    warnings,          \* indexes of the transcripts reported as warnings
    surfaced,          \* the exception kind that left FirefliesClient, or "none"
    reported,          \* the message the front end ended the run with, or "none"
    exit_status,       \* the status of typer.Exit, "uncaught", or "none"
    export_format,     \* the --format option
    export_calls,      \* the exporter functions invoked, in order
    files_written,     \* the report files written, in order
    document,          \* the lines _build_markdown returned
    workbook,          \* the sheets of the Workbook that export_to_excel saved
    json_data,         \* the dict export_to_json dumped, None before
    filename,          \* the filename argument of the export function
    clock,             \* what datetime.now() gives during the export
    source,            \* the transcripts the Fireflies account holds
    limit,             \* the limit argument of get_transcripts
    fail_at,           \* which request of the call fails (0: none does)
    skip,              \* the local skip of get_transcripts
    all_transcripts,   \* the local all_transcripts of get_transcripts
    raw_speakers,      \* the "speakers" array of a transcript as the API sent it
    statements,        \* the lead statements handed to _format_statements
    max_chars,         \* the max_chars argument of _format_statements
    returned,          \* the value the operation returned, None before
    events             \* the outside calls the operation made, in order

attributionVars == <<speakers, sentences, host_email, organizer_email,
                     host_identifiers, host_speaker_ids, lead_statements,
                     called>>
ingestionVars == <<response, meetings_count, lead_count, analysis_data, raised,
                   result, stage>>
runVars == <<meetings, frontend, list_outcome, transcripts, pc,
             next_transcript, warnings, surfaced, reported, exit_status,
             export_format, export_calls, files_written>>
exportVars == <<document, workbook, json_data, filename, clock>>
clientVars == <<source, limit, fail_at, skip, all_transcripts, raw_speakers>>
promptVars == <<statements, max_chars>>
callVars == <<returned, events>>
vars == <<attributionVars, ingestionVars, runVars, exportVars, clientVars,
          promptVars, callVars>>

\* no Meeting is under attribution
AttributionIdle ==
    /\ speakers = <<>> /\ sentences = <<>>
    /\ host_email = None /\ organizer_email = None
    /\ host_identifiers = None
    /\ host_speaker_ids = {} /\ lead_statements = <<>>
    /\ called = FALSE

\* no analysis is under way
IngestionIdle ==
    /\ response = None /\ analysis_data = None
    /\ meetings_count = 0 /\ lead_count = 0
    /\ raised = "none" /\ result = None /\ stage = "idle"

\* no front-end run is under way
RunIdle ==
    /\ meetings = <<>> /\ frontend = "none"
    /\ list_outcome = "none" /\ transcripts = <<>>
    /\ pc = "idle" /\ next_transcript = 0 /\ warnings = <<>>
    /\ surfaced = "none" /\ reported = "none" /\ exit_status = "none"
    /\ export_format = "none" /\ export_calls = <<>> /\ files_written = <<>>

\* nothing has been exported
ExportIdle ==
    /\ document = <<>> /\ workbook = <<>> /\ json_data = None
    /\ filename = None /\ clock = "none"

\* no get_transcripts call is under way and no transcript is being parsed
ClientIdle ==
    /\ source = <<>> /\ limit = None /\ fail_at = 0
    /\ skip = 0 /\ all_transcripts = <<>> /\ raw_speakers = <<>>

\* no prompt is being formatted
PromptIdle == statements = <<>> /\ max_chars = 0

\* the operation has neither returned nor called out
CallIdle == returned = None /\ events = <<>>

meeting == <<speakers, sentences, host_email, organizer_email>>

(***************************************************************************)
(* Meeting.get_lead_statements                                             *)
(***************************************************************************)

\* lines 70-71: the None default is replaced by a fresh empty list
EffectiveIdentifiers(ids) == IF ids.some THEN ids.val ELSE <<>>

\* a slip that would forget the organizer: only host_email is added
HostMarkersWithoutOrganizer(ids, he, oe) ==
    {EffectiveIdentifiers(ids)[i] : i \in 1..Len(EffectiveIdentifiers(ids))}
        \cup (IF Truthy(he) THEN {Lower(he.val)} ELSE {})

\* lines 74-78: the marker set; the caller's strings go in as they are,
\* host_email and organizer_email lower-cased when truthy
HostMarkers(ids, he, oe) ==
    {EffectiveIdentifiers(ids)[i] : i \in 1..Len(EffectiveIdentifiers(ids))}
        \cup (IF Truthy(he) THEN {Lower(he.val)} ELSE {})
        \cup (IF Truthy(oe) THEN {Lower(oe.val)} ELSE {})

\* lines 83-84
SpeakerLower(sp) == IF Truthy(sp.name) THEN Lower(sp.name.val) ELSE <<>>
EmailLower(sp) == IF Truthy(sp.email) THEN Lower(sp.email.val) ELSE <<>>

\* a slip that would drop the `if marker` filter of line 90
MarkerMatchUnfiltered(sp, markers) ==
    \E marker \in markers :
        \/ Contains(marker, SpeakerLower(sp))
        \/ Contains(marker, EmailLower(sp))

\* lines 89-90: any(marker in speaker_lower or marker in email_lower
\*                  for marker in host_markers if marker)
MarkerMatch(sp, markers) ==
    \E marker \in markers :
        /\ marker # <<>>
        /\ \/ Contains(marker, SpeakerLower(sp))
           \/ Contains(marker, EmailLower(sp))

\* lines 87-91
IsHostSpeaker(sp, markers) == sp.is_host \/ MarkerMatch(sp, markers)

\* lines 81-91
HostSpeakerIds(spks, markers) ==
    {spks[i].id : i \in {j \in 1..Len(spks) : IsHostSpeaker(spks[j], markers)}}

\* a slip that would invert the filter of line 96
KeepHostSentence(s, hostIds) == s.speaker_id \in hostIds

\* lines 94-97
KeepSentence(s, hostIds) == s.speaker_id \notin hostIds

FilterLead(sents, hostIds) ==
    LET keep(s) == KeepSentence(s, hostIds) IN SelectSeq(sents, keep)

\* a slip that would keep only the sentences of known non-host speakers
GetLeadStatementsKnownOnly(spks, sents, he, oe, ids) ==
    LET hostIds == HostSpeakerIds(spks, HostMarkers(ids, he, oe))
        leadIds == {spks[i].id : i \in 1..Len(spks)} \ hostIds
        keep(s) == s.speaker_id \in leadIds
    IN  SelectSeq(sents, keep)

\* lines 63-99: the returned list
GetLeadStatementsResult(spks, sents, he, oe, ids) ==
    FilterLead(sents, HostSpeakerIds(spks, HostMarkers(ids, he, oe)))

\* a slip that would alias the caller's list: host_markers = host_identifiers
\* followed by appends of the lower-cased emails
CallerListAliased(ids, he, oe) ==
    IF ids.some
    THEN Some(ids.val \o (IF Truthy(he) THEN <<Lower(he.val)>> ELSE <<>>)
                      \o (IF Truthy(oe) THEN <<Lower(oe.val)>> ELSE <<>>))
    ELSE ids

\* line 74: set(host_identifiers) copies, so the adds of lines 76 and 78 do
\* not reach the caller's list
CallerListAfterCall(ids, he, oe) == ids

InitAttribution ==
    /\ speakers \in SpeakerLists
    /\ sentences \in SentenceLists
    /\ host_email \in Opt(EmailStr)
    /\ organizer_email \in Opt(EmailStr)
    /\ host_identifiers \in Opt(SeqUpTo(IdentifierStr, MaxIdentifiers))
    /\ host_speaker_ids = {}
    /\ lead_statements = <<>>
    /\ called = FALSE
    /\ IngestionIdle
    /\ RunIdle
    /\ ExportIdle
    /\ ClientIdle
    /\ PromptIdle
    /\ CallIdle

\* one call; the caller may call again on the same Meeting and list
GetLeadStatements ==
    /\ host_speaker_ids' = HostSpeakerIds(speakers,
                              HostMarkers(host_identifiers, host_email,
                                          organizer_email))
    /\ lead_statements' = GetLeadStatementsResult(speakers, sentences,
                              host_email, organizer_email, host_identifiers)
    /\ host_identifiers' = CallerListAfterCall(host_identifiers, host_email,
                                               organizer_email)
    /\ called' = TRUE
    /\ UNCHANGED <<speakers, sentences, host_email, organizer_email>>
    /\ UNCHANGED <<ingestionVars, runVars, exportVars, clientVars,
                 promptVars, callVars>>

NextAttribution == GetLeadStatements

SpecAttribution == InitAttribution /\ [][NextAttribution]_vars

(***************************************************************************)
(* Properties of get_lead_statements                                       *)
(***************************************************************************)
Called == called

\* the caller's identifiers, as a set of strings
CallerIdentifiers ==
    IF host_identifiers.some
    THEN {host_identifiers.val[i] : i \in 1..Len(host_identifiers.val)}
    ELSE {}

\* s is a substring of t when both are compared ignoring case
ContainsIgnoreCase(s, t) == Contains(Lower(s), Lower(t))

NameOf(sp) == IF sp.name.some THEN sp.name.val ELSE <<>>
EmailOf(sp) == IF sp.email.some THEN sp.email.val ELSE <<>>

Returned(k) ==
    \E n \in 1..Len(lead_statements) : lead_statements[n] = sentences[k]

\* C1: the returned list is exactly the sentences whose speaker_id is not in
\* the computed host-speaker-id set, in their original relative order:
\* nothing added, nothing duplicated or reordered, no host sentence kept.
C1_LeadStatementsAreTheNonHostSubsequence ==
    Called =>
        /\ \A n \in 1..Len(lead_statements) :
              /\ \E k \in 1..Len(sentences) : sentences[k] = lead_statements[n]
              /\ lead_statements[n].speaker_id \notin host_speaker_ids
        /\ \A n, m \in 1..Len(lead_statements) :
              n < m => lead_statements[n].index < lead_statements[m].index
        /\ \A k \in 1..Len(sentences) :
              sentences[k].speaker_id \notin host_speaker_ids => Returned(k)

\* C1 witness: a host's sentence precedes a lead's sentence and only the
\* second one is returned.
C1_Witness ==
    /\ Called
    /\ Len(sentences) = 2
    /\ sentences[1].speaker_id \in host_speaker_ids
    /\ lead_statements = <<sentences[2]>>

\* the sentences of speaker sp are all left out of the returned list
Excluded(sp) ==
    \A n \in 1..Len(lead_statements) : lead_statements[n].speaker_id # sp.id

\* C2: every caller-supplied identifier, in any letter case, excludes every
\* speaker whose name or email contains it when both are compared ignoring
\* case.
C2_CallerIdentifiersMatchIgnoringCase ==
    Called =>
        \A h \in CallerIdentifiers : \A i \in 1..Len(speakers) :
            (/\ h # <<>>
             /\ \/ ContainsIgnoreCase(h, NameOf(speakers[i]))
                \/ ContainsIgnoreCase(h, EmailOf(speakers[i])))
                => /\ speakers[i].id \in host_speaker_ids
                   /\ Excluded(speakers[i])

\* the effective marker set as the host-marker rule words it: the caller's
\* identifiers as given, plus host_email and organizer_email lower-cased
\* when present
EffectiveMarkers ==
    CallerIdentifiers
        \cup {Lower(e.val) : e \in {x \in {host_email, organizer_email} : x.some}}

\* C3: a speaker is in the host-speaker-id set exactly when its is_host flag
\* is set or a non-empty effective marker is a substring of its lower-cased
\* name or lower-cased email; in particular a speaker whose email equals a
\* present host_email or organizer_email in any letter case is a host.
C3_HostIffFlagOrMarkerSubstring ==
    Called =>
        /\ \A i \in 1..Len(speakers) :
              speakers[i].id \in host_speaker_ids
                <=> \/ speakers[i].is_host
                    \/ \E m \in EffectiveMarkers :
                          /\ m # <<>>
                          /\ \/ Contains(m, Lower(NameOf(speakers[i])))
                             \/ Contains(m, Lower(EmailOf(speakers[i])))
        /\ \A i \in 1..Len(speakers) : \A e \in {host_email, organizer_email} :
              (/\ Truthy(e)
               /\ speakers[i].email.some
               /\ Lower(speakers[i].email.val) = Lower(e.val))
                  => speakers[i].id \in host_speaker_ids

\* C3 witness: a speaker without the flag is a host only because its email
\* equals organizer_email in another letter case.
C3_Witness ==
    /\ Called
    /\ \E i \in 1..Len(speakers) :
          /\ ~speakers[i].is_host
          /\ speakers[i].id \in host_speaker_ids
          /\ ~Truthy(host_email)
          /\ CallerIdentifiers = {}
          /\ Truthy(organizer_email) /\ speakers[i].email.some
          /\ speakers[i].email.val # organizer_email.val
          /\ Lower(speakers[i].email.val) = Lower(organizer_email.val)
    /\ \E i \in 1..Len(speakers) : speakers[i].id \notin host_speaker_ids

NoNameNoEmail(sp) == ~Truthy(sp.name) /\ ~Truthy(sp.email)

\* C4: a speaker with no name and no email is a host only through its
\* is_host flag, whatever the markers are; and when every marker is the
\* empty string, the hosts are exactly the flagged speakers.
C4_EmptyStringsNeverMatch ==
    Called =>
        /\ \A i \in 1..Len(speakers) :
              NoNameNoEmail(speakers[i])
                => (speakers[i].id \in host_speaker_ids <=> speakers[i].is_host)
        /\ (/\ CallerIdentifiers \subseteq {<<>>}
            /\ ~Truthy(host_email)
            /\ ~Truthy(organizer_email))
              => \A i \in 1..Len(speakers) :
                    speakers[i].id \in host_speaker_ids <=> speakers[i].is_host

\* C4 witness: the caller passes the empty string as identifier, a speaker
\* with a name and one with neither name nor email are both kept as leads
\* and their sentences are returned.
C4_Witness ==
    /\ Called
    /\ CallerIdentifiers = {<<>>}
    /\ Len(speakers) = 2
    /\ Truthy(speakers[1].name)
    /\ NoNameNoEmail(speakers[2])
    /\ host_speaker_ids = {}
    /\ Len(sentences) = 2 /\ lead_statements = sentences
    /\ sentences[1].speaker_id = 1 /\ sentences[2].speaker_id = 2

KnownSpeakerId(id) == \E i \in 1..Len(speakers) : speakers[i].id = id

\* C5: a sentence whose speaker_id matches no Speaker is always returned,
\* and a Meeting without Speakers yields all of its Sentences.
C5_UnmatchedSentencesAreLeadStatements ==
    Called =>
        /\ \A k \in 1..Len(sentences) :
              ~KnownSpeakerId(sentences[k].speaker_id) => Returned(k)
        /\ speakers = <<>> => lead_statements = sentences

\* C5 witness: the Meeting has a host speaker whose sentence is dropped and
\* a sentence of an unknown speaker, which is returned.
C5_Witness ==
    /\ Called
    /\ Len(speakers) >= 1
    /\ Len(sentences) = 2
    /\ sentences[1].speaker_id \in host_speaker_ids
    /\ ~KnownSpeakerId(sentences[2].speaker_id)
    /\ lead_statements = <<sentences[2]>>
    /\ Truthy(host_email)

JNull == [t |-> "null"]
JNum(n) == [t |-> "num", v |-> n]
JStr(x) == [t |-> "str", v |-> x]
JArr(xs) == [t |-> "arr", v |-> xs]
JObj(f) == [t |-> "obj", v |-> f]
EmptyObj == JObj(<<>>)
EmptyArr == JArr(<<>>)

\* dict.get(key, default)
Get(obj, key, default) == IF key \in DOMAIN obj.v THEN obj.v[key] ELSE default

(***************************************************************************)
(* The LLM response as a sequence of lexemes.  "text" is prose that is no  *)
(* JSON; a key lexeme stands for a quoted key and its colon.               *)
(***************************************************************************)
KeyLexemes == {"pain_points:", "note:"}
Lexemes == {"{", "}", "null", "[]", "text"} \cup KeyLexemes
\* lexemes of responses that name the counts of the result as keys: the
\* two count keys and a number
CountKeyLexemes == {"meetings_analyzed:", "total_lead_statements:"}
NumberLexemes == {"7"}
KeyOf(lex) ==
    CASE lex = "pain_points:" -> "pain_points"
      [] lex = "meetings_analyzed:" -> "meetings_analyzed"
      [] lex = "total_lead_statements:" -> "total_lead_statements"
      [] OTHER -> "note"

ParseFail == [ok |-> FALSE, val |-> JNull, next |-> 0]
ParseOk(v, n) == [ok |-> TRUE, val |-> v, next |-> n]

\* the JSON value that starts at lexeme i
RECURSIVE ParseValue(_, _)
ParseValue(toks, i) ==
    IF i > Len(toks) THEN ParseFail
    ELSE IF toks[i] = "null" THEN ParseOk(JNull, i + 1)
    ELSE IF toks[i] = "[]" THEN ParseOk(EmptyArr, i + 1)
    ELSE IF toks[i] \in NumberLexemes THEN ParseOk(JNum(7), i + 1)
    ELSE IF toks[i] = "{" /\ i + 1 <= Len(toks)
    THEN IF toks[i + 1] = "}" THEN ParseOk(EmptyObj, i + 2)
         ELSE IF toks[i + 1] \in KeyLexemes \cup CountKeyLexemes
         THEN LET r == ParseValue(toks, i + 2)
              IN  IF r.ok /\ r.next <= Len(toks) /\ toks[r.next] = "}"
                  THEN ParseOk(JObj(KeyOf(toks[i + 1]) :> r.val), r.next + 1)
                  ELSE ParseFail
         ELSE ParseFail
    ELSE ParseFail

\* json.loads: the whole text must be one JSON value, else JSONDecodeError
JsonLoads(toks) ==
    LET r == ParseValue(toks, 1)
    IN  IF r.ok /\ r.next = Len(toks) + 1 THEN ParseOk(r.val, r.next) ELSE ParseFail

Positions(toks, lex) == {i \in 1..Len(toks) : toks[i] = lex}
Min(S) == CHOOSE x \in S : \A y \in S : x <= y
Max(S) == CHOOSE x \in S : \A y \in S : x >= y

\* a slip that would make the pattern lazy: \{[\s\S]*?\}
RegexSearchLazy(toks) ==
    LET opens == Positions(toks, "{")
        closesAfter(i) == {j \in Positions(toks, "}") : j > i}
        starts == {i \in opens : closesAfter(i) # {}}
    IN  IF starts = {} THEN None
        ELSE Some(SubSeq(toks, Min(starts), Min(closesAfter(Min(starts)))))

\* line 363: re.search(r'\{[\s\S]*\}', response): the leftmost "{" that has a
\* "}" after it, extended greedily to the last "}"
RegexSearch(toks) ==
    LET opens == Positions(toks, "{")
        closesAfter(i) == {j \in Positions(toks, "}") : j > i}
        starts == {i \in opens : closesAfter(i) # {}}
    IN  IF starts = {} THEN None
        ELSE Some(SubSeq(toks, Min(starts), Max(closesAfter(Min(starts)))))

\* lines 352-370
ParseResponse(toks) ==
    IF JsonLoads(toks).ok THEN JsonLoads(toks).val
    ELSE LET json_match == RegexSearch(toks)
         IN  IF json_match.some /\ JsonLoads(json_match.val).ok
             THEN JsonLoads(json_match.val).val
             ELSE EmptyObj

(***************************************************************************)
(* AIAnalyzer._build_result                                                *)
(***************************************************************************)
EmptyString == JStr("")

\* lines 386-397
BuildCustomerProfile(cp) ==
    [company_name         |-> Get(cp, "company_name", EmptyString),
     industry             |-> Get(cp, "industry", EmptyString),
     company_size         |-> Get(cp, "company_size", EmptyString),
     decision_maker_role  |-> Get(cp, "decision_maker_role", EmptyString),
     purchasing_authority |-> Get(cp, "purchasing_authority", EmptyString),
     business_context     |-> Get(cp, "business_context", EmptyString),
     current_solutions    |-> Get(cp, "current_solutions", EmptyArr),
     budget_indicators    |-> Get(cp, "budget_indicators", EmptyString),
     timeline_urgency     |-> Get(cp, "timeline_urgency", EmptyString),
     supporting_quotes    |-> Get(cp, "supporting_quotes", EmptyArr)]

\* a slip that would give impact_level the default of the other fields
BuildPainPointPlainDefaults(pp) ==
    [category         |-> Get(pp, "category", JStr("Sonstiges")),
     description      |-> Get(pp, "description", EmptyString),
     direct_quote     |-> Get(pp, "direct_quote", EmptyString),
     speaker          |-> Get(pp, "speaker", EmptyString),
     impact_level     |-> Get(pp, "impact_level", EmptyString),
     context          |-> Get(pp, "context", EmptyString),
     desired_outcome  |-> Get(pp, "desired_outcome", EmptyString),
     impact_statement |-> Get(pp, "impact_statement", EmptyString)]

\* lines 401-410
BuildPainPoint(pp) ==
    [category         |-> Get(pp, "category", JStr("Sonstiges")),
     description      |-> Get(pp, "description", EmptyString),
     direct_quote     |-> Get(pp, "direct_quote", EmptyString),
     speaker          |-> Get(pp, "speaker", EmptyString),
     impact_level     |-> Get(pp, "impact_level", JStr("Mittel")),
     context          |-> Get(pp, "context", EmptyString),
     desired_outcome  |-> Get(pp, "desired_outcome", EmptyString),
     impact_statement |-> Get(pp, "impact_statement", EmptyString)]

\* lines 414-420
BuildQuestion(q) ==
    [text               |-> Get(q, "text", EmptyString),
     speaker            |-> Get(q, "speaker", EmptyString),
     category           |-> Get(q, "category", JStr("Allgemein")),
     underlying_concern |-> Get(q, "underlying_concern", EmptyString),
     context            |-> Get(q, "context", EmptyString)]

\* lines 424-432
BuildObjection(obj) ==
    [objection_text      |-> Get(obj, "objection_text", EmptyString),
     direct_quote        |-> Get(obj, "direct_quote", EmptyString),
     speaker             |-> Get(obj, "speaker", EmptyString),
     emotional_undertone |-> Get(obj, "emotional_undertone", EmptyString),
     root_cause          |-> Get(obj, "root_cause", EmptyString),
     resolution_pathway  |-> Get(obj, "resolution_pathway", EmptyString),
     conversion_trigger  |-> Get(obj, "conversion_trigger", EmptyString)]

\* lines 436-441; usage_count is never read from the element and keeps the
\* dataclass default of line 72
BuildLanguagePattern(lp) ==
    [category    |-> Get(lp, "category", EmptyString),
     phrase      |-> Get(lp, "phrase", EmptyString),
     context     |-> Get(lp, "context", EmptyString),
     speaker     |-> Get(lp, "speaker", EmptyString),
     usage_count |-> JNum(1)]

RecordCategories ==
    {"customer_profiles", "pain_points", "questions", "objections",
     "language_patterns"}

\* the record a loop body appends for one element of a category
BuildRecord(cat, el) ==
    CASE cat = "customer_profiles" -> BuildCustomerProfile(el)
      [] cat = "pain_points" -> BuildPainPoint(el)
      [] cat = "questions" -> BuildQuestion(el)
      [] cat = "objections" -> BuildObjection(el)
      [] cat = "language_patterns" -> BuildLanguagePattern(el)

\* what `for x in value: ... x.get(...)` raises (lines 385, 400, 413, 423,
\* 435): None and numbers are not iterable; a string yields its characters
\* and an object its keys, which are strings without .get; an array yields
\* its elements, which need .get
LoopError(value) ==
    CASE value.t \in {"null", "num"} -> "TypeError"
      [] value.t = "str" -> IF value.v = "" THEN "none" ELSE "AttributeError"
      [] value.t = "obj" -> IF DOMAIN value.v = {} THEN "none" ELSE "AttributeError"
      [] value.t = "arr" ->
            IF \E i \in 1..Len(value.v) : value.v[i].t # "obj"
            THEN "AttributeError" ELSE "none"

\* a slip that would insert each record at the front of its list
LoopRecordsReversed(cat, value) ==
    IF value.t = "arr"
    THEN [i \in 1..Len(value.v) |->
            BuildRecord(cat, value.v[Len(value.v) + 1 - i])]
    ELSE <<>>

\* the records a loop that raises nothing appends, in element order
LoopRecords(cat, value) ==
    IF value.t = "arr"
    THEN [i \in 1..Len(value.v) |-> BuildRecord(cat, value.v[i])]
    ELSE <<>>

\* a Python value that cannot be a dict key (line 452)
Unhashable(value) == value.t \in {"arr", "obj"}

\* a slip that would store 1 instead of adding 1 to the count so far
TopPainCategoriesOverwritten(pain_points) ==
    [c \in {pain_points[i].category : i \in 1..Len(pain_points)} |-> 1]

\* lines 450-452: the loop over result.pain_points from the i-th on, with
\* result.top_pain_categories[cat] = result.top_pain_categories.get(cat, 0) + 1
RECURSIVE CountCategories(_, _, _)
CountCategories(pain_points, i, counts) ==
    IF i > Len(pain_points) THEN counts
    ELSE LET cat == pain_points[i].category
             sofar == IF cat \in DOMAIN counts THEN counts[cat] ELSE 0
         IN  CountCategories(pain_points, i + 1,
                 [c \in DOMAIN counts \cup {cat} |->
                     IF c = cat THEN sofar + 1 ELSE counts[c]])

\* lines 449-452, starting from the empty dict of the dataclass default
TopPainCategories(pain_points) == CountCategories(pain_points, 1, <<>>)

\* the slice bound of line 455
CommonQuestionsLimit == 10

\* a slip that would drop the slice: [q.text for q in result.questions]
CommonQuestionsUnsliced(questions) ==
    [i \in 1..Len(questions) |-> questions[i].text]

\* line 455
CommonQuestions(questions) ==
    LET n == IF Len(questions) < CommonQuestionsLimit
             THEN Len(questions) ELSE CommonQuestionsLimit
    IN  [i \in 1..n |-> questions[i].text]

NoResult == [none |-> TRUE]
Raise(kind) == [raised |-> kind, result |-> NoResult]
Return(r) == [raised |-> "none", result |-> r]

\* AnalysisResult(meetings_analyzed=..., total_lead_statements=...) with
\* the dataclass defaults of lines 78-95
NewAnalysisResult(nm, nl) ==
    [timestamp |-> "datetime",
     meetings_analyzed |-> nm, total_lead_statements |-> nl,
     customer_profiles |-> <<>>, pain_points |-> <<>>, questions |-> <<>>,
     objections |-> <<>>, language_patterns |-> <<>>,
     top_pain_categories |-> <<>>, common_questions |-> <<>>,
     conversion_triggers |-> EmptyArr, value_propositions |-> EmptyArr,
     marketing_recommendations |-> EmptyArr,
     messaging_guidelines |-> EmptyArr]

LoopOrder ==
    <<"customer_profiles", "pain_points", "questions", "objections",
      "language_patterns">>

\* lines 372-457; the first thing that raises ends the call: a parsed value
\* without .get (line 385), a loop (lines 385-441), or an unhashable
\* pain-point category used as a dict key (line 452)
BuildResult(data, nm, nl) ==
    IF data.t # "obj" THEN Raise("AttributeError")
    ELSE
    LET value(cat) == Get(data, cat, EmptyArr)
        failing == {i \in 1..Len(LoopOrder) : LoopError(value(LoopOrder[i])) # "none"}
        pain_points == LoopRecords("pain_points", value("pain_points"))
        questions == LoopRecords("questions", value("questions"))
    IN  IF failing # {} THEN Raise(LoopError(value(LoopOrder[Min(failing)])))
        ELSE IF \E i \in 1..Len(pain_points) : Unhashable(pain_points[i].category)
        THEN Raise("TypeError")
        ELSE Return(
            [NewAnalysisResult(nm, nl) EXCEPT
                !.customer_profiles =
                    LoopRecords("customer_profiles", value("customer_profiles")),
                !.pain_points = pain_points,
                !.questions = questions,
                !.objections = LoopRecords("objections", value("objections")),
                !.language_patterns =
                    LoopRecords("language_patterns", value("language_patterns")),
                !.value_propositions = Get(data, "value_propositions", EmptyArr),
                !.marketing_recommendations =
                    Get(data, "marketing_recommendations", EmptyArr),
                !.messaging_guidelines =
                    Get(data, "messaging_guidelines", EmptyArr),
                !.conversion_triggers = Get(data, "conversion_triggers", EmptyArr),
                !.top_pain_categories = TopPainCategories(pain_points),
                !.common_questions = CommonQuestions(questions)])

(***************************************************************************)
(* AIAnalyzer.analyze_meetings from the LLM call on (lines 325-336), on    *)
(* every response text of at most MaxTextLen lexemes.                      *)
(***************************************************************************)
MaxTextLen == 6

InitIngestion ==
    /\ AttributionIdle
    /\ RunIdle
    /\ ExportIdle
    /\ ClientIdle
    /\ PromptIdle
    /\ CallIdle
    /\ \/ response = None
       \/ \E n \in 0..MaxTextLen : \E text \in [1..n -> Lexemes] :
             response = Some(text)
    /\ meetings_count = 1
    /\ lead_count = 1
    /\ analysis_data = None
    /\ raised = "none"
    /\ result = None
    /\ stage = "start"

\* a slip that would leave analysis_data None after a failed call
ParsedOrNone(resp) == IF resp.some THEN ParseResponse(resp.val) ELSE JNull

\* lines 326-331: the try block around _call_ai and _parse_response
ParsedOrEmpty(resp) == IF resp.some THEN ParseResponse(resp.val) ELSE EmptyObj

\* lines 325-336
AnalyzeResponse ==
    /\ stage = "start"
    /\ LET data == ParsedOrEmpty(response)
           out == BuildResult(data, meetings_count, lead_count)
       IN  /\ analysis_data' = data
           /\ raised' = out.raised
           /\ result' = out.result
    /\ stage' = "done"
    /\ UNCHANGED <<response, meetings_count, lead_count>>
    /\ UNCHANGED <<attributionVars, runVars, exportVars, clientVars,
                 promptVars, callVars>>

NextIngestion == AnalyzeResponse

SpecIngestion == InitIngestion /\ [][NextIngestion]_vars

(***************************************************************************)
(* AIAnalyzer.analyze_meetings as a whole (lines 273-336), on at most      *)
(* MaxMeetings meetings whose host is known by the meeting's host_email,   *)
(* and on every response text of at most MaxAnalyzeTextLen lexemes that    *)
(* may name the counts of the result.                                      *)
(***************************************************************************)
MaxAnalyzeTextLen == 4

\* the Meeting fields that analyze_meetings reads through
\* get_lead_statements
MeetingRecord(spks, sents, he, oe) ==
    [speakers |-> spks, sentences |-> sents, host_email |-> he,
     organizer_email |-> oe]

\* the speaker list of a loaded meeting: one speaker, known by an email
HostByEmail ==
    <<[id |-> 1, name |-> None, email |-> Some(<<"a">>), is_host |-> FALSE]>>

\* meetings whose speaker 1 is the host exactly when host_email names it,
\* and whose other sentences belong to a speaker that is not listed
LoadedMeetings ==
    {MeetingRecord(HostByEmail, sents, he, None) :
        sents \in {st \in SentenceLists :
                     \A i \in 1..Len(st) : st[i].speaker_id \in {1, 2}},
        he \in {None, Some(<<"a">>)}}

AnalyzeLexemes == {"{", "}"} \cup NumberLexemes \cup CountKeyLexemes

\* line 296
LeadStatementsOf(m, ids) ==
    GetLeadStatementsResult(m.speakers, m.sentences, m.host_email,
                            m.organizer_email, ids)

\* lines 292-297: all_lead_statements after the loop over the meetings from
\* the i-th on
RECURSIVE AllLeadStatements(_, _, _)
AllLeadStatements(ms, ids, i) ==
    IF i > Len(ms) THEN <<>>
    ELSE LeadStatementsOf(ms[i], ids) \o AllLeadStatements(ms, ids, i + 1)

\* a slip that would return the default AnalysisResult() when no lead
\* statement is found
NoLeadResultDefault(n) == NewAnalysisResult(0, 0)

\* lines 306-310
NoLeadResult(n) == NewAnalysisResult(n, 0)

\* lines 288-336; resp is what _call_ai gives (None when it raises)
AnalyzeMeetingsResult(ms, ids, resp) ==
    IF ms = <<>> THEN Return(NewAnalysisResult(0, 0))
    ELSE LET all == AllLeadStatements(ms, ids, 1)
         IN  IF all = <<>> THEN Return(NoLeadResult(Len(ms)))
             ELSE BuildResult(ParsedOrEmpty(resp), Len(ms), Len(all))

\* the LLM is reached only past the two early returns (lines 288, 306)
ReachesLLM(ms, ids) == ms # <<>> /\ AllLeadStatements(ms, ids, 1) # <<>>

InitAnalyze ==
    /\ AttributionIdle
    /\ ExportIdle
    /\ ClientIdle
    /\ PromptIdle
    /\ CallIdle
    /\ \E n \in 0..MaxMeetings : meetings \in [1..n -> LoadedMeetings]
    /\ frontend = "none"
    /\ list_outcome = "none" /\ transcripts = <<>>
    /\ pc = "idle" /\ next_transcript = 0 /\ warnings = <<>>
    /\ surfaced = "none" /\ reported = "none" /\ exit_status = "none"
    /\ export_format = "none" /\ export_calls = <<>> /\ files_written = <<>>
    /\ \/ response = None
       \/ \E n \in 0..MaxAnalyzeTextLen : \E text \in [1..n -> AnalyzeLexemes] :
             response = Some(text)
    /\ meetings_count = 0
    /\ lead_count = 0
    /\ analysis_data = None
    /\ raised = "none"
    /\ result = None
    /\ stage = "start"

CallAI(resp) ==
    [kind |-> "call_ai", ended |-> IF resp = None THEN "raised" ELSE "returned"]
BuildResultEvent == [kind |-> "build_result", ended |-> "returned"]

\* a slip that would call the provider again after a failed call
AnalyzeEventsRetrying(ms, ids, resp) ==
    IF ~ReachesLLM(ms, ids) THEN <<>>
    ELSE IF resp = None THEN <<CallAI(resp), CallAI(resp), BuildResultEvent>>
    ELSE <<CallAI(resp), BuildResultEvent>>

\* lines 288-334: the provider call (line 327, one call inside the try) and
\* the _build_result call (line 334, after the try) of one analyze_meetings
AnalyzeEvents(ms, ids, resp) ==
    IF ~ReachesLLM(ms, ids) THEN <<>>
    ELSE <<CallAI(resp), BuildResultEvent>>

\* one call of analyze_meetings(meetings, host_identifiers)
AnalyzeMeetings ==
    /\ stage = "start"
    /\ LET out == AnalyzeMeetingsResult(meetings, host_identifiers, response)
           reached == ReachesLLM(meetings, host_identifiers)
       IN  /\ raised' = out.raised
           /\ result' = out.result
           /\ analysis_data' =
                 IF reached THEN Some(ParsedOrEmpty(response)) ELSE None
           /\ meetings_count' = IF reached THEN Len(meetings) ELSE 0
           /\ lead_count' =
                 IF reached
                 THEN Len(AllLeadStatements(meetings, host_identifiers, 1))
                 ELSE 0
    /\ events' = AnalyzeEvents(meetings, host_identifiers, response)
    /\ stage' = "done"
    /\ UNCHANGED <<response, returned>>
    /\ UNCHANGED <<attributionVars, runVars, exportVars, clientVars,
                   promptVars>>

NextAnalyze == AnalyzeMeetings

SpecAnalyze == InitAnalyze /\ [][NextAnalyze]_vars

(***************************************************************************)
(* _format_statements (ai_analyzer.py lines 338-350) on at most            *)
(* MaxStatements statements with names and texts of a few characters, with *)
(* budgets up to MaxChars and the default budget.  Texts are sequences of  *)
(* characters, so the length of the joined string is counted, not assumed. *)
(***************************************************************************)
MaxStatements == 3
MaxStatementTextLen == 2
MaxChars == 16

\* the default of the max_chars parameter, line 338
max_chars_default == 50000

PromptStatement ==
    [speaker_name : {<<>>, <<"a">>},
     text : SeqUpTo({"a"}, MaxStatementTextLen)]

\* line 344: f"[{stmt.speaker_name}]: {stmt.text}"
Line(stmt) == <<"[">> \o stmt.speaker_name \o <<"]", ":", " ">> \o stmt.text

\* lines 343-348: the list `formatted` built from the i-th statement on,
\* total being total_chars on entry
RECURSIVE FormattedFrom(_, _, _, _)
FormattedFrom(stmts, i, total, budget) ==
    IF i > Len(stmts) THEN <<>>
    ELSE IF total + Len(Line(stmts[i])) > budget THEN <<>>
    ELSE <<Line(stmts[i])>>
             \o FormattedFrom(stmts, i + 1, total + Len(Line(stmts[i])), budget)

\* "\n".join(lines)
RECURSIVE Join(_)
Join(lines) ==
    IF lines = <<>> THEN <<>>
    ELSE IF Len(lines) = 1 THEN lines[1]
    ELSE lines[1] \o <<"\n">> \o Join(Tail(lines))

\* lines 338-350
FormatStatements(stmts, budget) == Join(FormattedFrom(stmts, 1, 0, budget))

InitPrompt ==
    /\ AttributionIdle
    /\ RunIdle
    /\ ExportIdle
    /\ ClientIdle
    /\ CallIdle
    /\ response = None /\ analysis_data = None /\ result = None
    /\ meetings_count = 0 /\ lead_count = 0
    /\ raised = "none"
    /\ stage = "start"
    /\ \E n \in 0..MaxStatements : statements \in [1..n -> PromptStatement]
    /\ max_chars \in (0..MaxChars) \cup {max_chars_default}

\* one call of _format_statements(statements, max_chars)
FormatStatementsCall ==
    /\ stage = "start"
    /\ returned' = Some(FormatStatements(statements, max_chars))
    /\ stage' = "done"
    /\ UNCHANGED <<response, meetings_count, lead_count, analysis_data, raised,
                   result, events>>
    /\ UNCHANGED <<attributionVars, runVars, exportVars, clientVars,
                   promptVars>>

NextPrompt == FormatStatementsCall

SpecPrompt == InitPrompt /\ [][NextPrompt]_vars

(***************************************************************************)
(* A front-end run: the analyze command of cli.py (lines 96-149) and       *)
(* fetch_and_analyze of app.py (lines 158-210), step by step: the          *)
(* transcript-list fetch, the detail fetch loop over at most               *)
(* MaxTranscripts transcripts, the analysis, and (CLI) the export.         *)
(***************************************************************************)
MaxTranscripts == 3

\* what a request meets at the transcript source
RequestOutcomes == {"ok", "transport_error", "http_error", "graphql_errors"}

\* fireflies_client.py lines 201-217: client.post raises the transport's own
\* exception (no handler wraps it); a status other than 200 and an "errors"
\* key raise FirefliesAPIError; otherwise the data is returned
MakeRequest(outcome, data) ==
    CASE outcome = "transport_error" -> Raise("TransportError")
      [] outcome = "http_error" -> Raise("FirefliesAPIError")
      [] outcome = "graphql_errors" -> Raise("FirefliesAPIError")
      [] OTHER -> Return(data)

\* a transcript of the list: what its detail request meets, whether the
\* source has it, and whether it holds a sentence of a lead
Transcript == [detail : RequestOutcomes, found : BOOLEAN, lead : BOOLEAN]

\* fireflies_client.py lines 301-363: the Meeting parsed for transcript i;
\* speaker 1 is the host named by host_email
ParseTranscript(i, t) ==
    [id |-> i,
     speakers |-> HostByEmail,
     sentences |-> IF t.lead
                   THEN <<[index |-> 1, speaker_id |-> 1],
                          [index |-> 2, speaker_id |-> 2]>>
                   ELSE <<[index |-> 1, speaker_id |-> 1]>>,
     host_email |-> Some(<<"a">>),
     organizer_email |-> None]

\* fireflies_client.py lines 282-299
GetTranscriptDetail(i, t) ==
    LET out == MakeRequest(t.detail, t)
    IN  IF out.raised # "none" THEN out
        ELSE IF ~t.found THEN Raise("FirefliesAPIError")
        ELSE Return(ParseTranscript(i, t))

\* fireflies_client.py lines 262-280, for a list that fits one page
GetTranscripts(outcome, ts) == MakeRequest(outcome, ts)

\* a slip that would drop what was loaded when one detail fetch fails
MeetingsAfterDetailReset(ms, out) ==
    IF out.raised = "none" THEN Append(ms, out.result) ELSE <<>>

\* cli.py lines 111-115, app.py lines 179-187: the meeting is appended, or
\* the exception is caught and the list is left as it is
MeetingsAfterDetail(ms, out) ==
    IF out.raised = "none" THEN Append(ms, out.result) ELSE ms

\* cli.py lines 141-146
ExportFunction(fmt) ==
    CASE fmt = "excel" -> "export_to_excel"
      [] fmt = "json" -> "export_to_json"
      [] OTHER -> "export_to_markdown"

LLMResponses ==
    {None, Some(<<"{", "}">>), Some(<<"{", "pain_points:", "null", "}">>)}

InitRun ==
    /\ AttributionIdle
    /\ ExportIdle
    /\ ClientIdle
    /\ PromptIdle
    /\ CallIdle
    /\ frontend \in {"cli", "app"}
    /\ list_outcome \in RequestOutcomes
    /\ IF list_outcome = "ok"
       THEN \E n \in 0..MaxTranscripts : transcripts \in [1..n -> Transcript]
       ELSE transcripts = <<>>
    /\ response \in LLMResponses
    /\ export_format \in {"excel", "json", "markdown"}
    /\ meetings = <<>>
    /\ pc = "fetch_list" /\ next_transcript = 0 /\ warnings = <<>>
    /\ surfaced = "none" /\ reported = "none" /\ exit_status = "none"
    /\ export_calls = <<>> /\ files_written = <<>>
    /\ meetings_count = 0 /\ lead_count = 0
    /\ analysis_data = None /\ raised = "none" /\ result = None
    /\ stage = "idle"

\* the run ends: the CLI raises typer.Exit(status), the dashboard returns
\* None after showing the message
EndRun(message, status) ==
    /\ reported' = message
    /\ exit_status' = IF frontend = "cli" THEN status ELSE "none"
    /\ pc' = "done"

\* cli.py lines 96-107 and 117-119, app.py lines 162-174 and 203-210
FetchTranscripts ==
    /\ pc = "fetch_list"
    /\ LET out == GetTranscripts(list_outcome, transcripts)
       IN  /\ surfaced' = out.raised
           /\ IF out.raised = "FirefliesAPIError"
              THEN /\ EndRun("Fireflies API Fehler", "1")
                   /\ UNCHANGED next_transcript
              ELSE IF out.raised # "none"
              THEN /\ IF frontend = "cli"
                      THEN /\ reported' = "none"
                           /\ exit_status' = "uncaught"
                           /\ pc' = "done"
                      ELSE EndRun("Fehler bei der Analyse", "none")
                   /\ UNCHANGED next_transcript
              ELSE IF out.result = <<>>
              THEN /\ EndRun("Keine Meetings im Zeitraum", "0")
                   /\ UNCHANGED next_transcript
              ELSE /\ pc' = "fetch_detail"
                   /\ next_transcript' = 1
                   /\ UNCHANGED <<reported, exit_status>>
    /\ UNCHANGED <<meetings, frontend, list_outcome, transcripts, warnings,
                   export_format, export_calls, files_written>>
    /\ UNCHANGED <<attributionVars, ingestionVars, exportVars, clientVars,
                 promptVars, callVars>>

\* cli.py lines 110-115, app.py lines 178-187: one pass of the loop body
FetchDetail ==
    /\ pc = "fetch_detail"
    /\ next_transcript <= Len(transcripts)
    /\ LET out == GetTranscriptDetail(next_transcript,
                                      transcripts[next_transcript])
       IN  /\ meetings' = MeetingsAfterDetail(meetings, out)
           /\ warnings' = IF out.raised = "none" THEN warnings
                          ELSE Append(warnings, next_transcript)
    /\ next_transcript' = next_transcript + 1
    /\ UNCHANGED <<frontend, list_outcome, transcripts, pc, surfaced, reported,
                   exit_status, export_format, export_calls, files_written>>
    /\ UNCHANGED <<attributionVars, ingestionVars, exportVars, clientVars,
                 promptVars, callVars>>

\* cli.py lines 121-123, app.py lines 189-191: after the loop
CheckMeetings ==
    /\ pc = "fetch_detail"
    /\ next_transcript > Len(transcripts)
    /\ IF meetings = <<>>
       THEN EndRun("Keine Meeting-Details", "1")
       ELSE /\ pc' = "analyze"
            /\ UNCHANGED <<reported, exit_status>>
    /\ UNCHANGED <<meetings, frontend, list_outcome, transcripts,
                   next_transcript, warnings, surfaced, export_format,
                   export_calls, files_written>>
    /\ UNCHANGED <<attributionVars, ingestionVars, exportVars, clientVars,
                 promptVars, callVars>>

\* cli.py lines 128-133, app.py lines 196-201 and 206-210
Analyze ==
    /\ pc = "analyze"
    /\ LET out == AnalyzeMeetingsResult(meetings, host_identifiers, response)
       IN  /\ raised' = out.raised
           /\ result' = out.result
           /\ IF out.raised # "none"
              THEN IF frontend = "cli" THEN EndRun("Analyse-Fehler", "1")
                   ELSE EndRun("Fehler bei der Analyse", "none")
              ELSE /\ pc' = IF frontend = "cli" THEN "export" ELSE "done"
                   /\ UNCHANGED <<reported, exit_status>>
    /\ UNCHANGED <<meetings, frontend, list_outcome, transcripts,
                   next_transcript, warnings, surfaced, export_format,
                   export_calls, files_written>>
    /\ UNCHANGED <<response, meetings_count, lead_count, analysis_data, stage>>
    /\ UNCHANGED <<attributionVars, exportVars, clientVars,
                 promptVars, callVars>>

\* cli.py lines 138-149: the export function of the format is invoked; it
\* writes its file, or raises and the run ends with "Export-Fehler"
Export ==
    /\ pc = "export"
    /\ export_calls' = Append(export_calls, ExportFunction(export_format))
    /\ \E written \in BOOLEAN :
          IF written
          THEN /\ files_written' = Append(files_written, export_format)
               /\ reported' = "Analyse-Ergebnis"
               /\ exit_status' = "0"
               /\ pc' = "done"
          ELSE /\ EndRun("Export-Fehler", "1")
               /\ UNCHANGED files_written
    /\ UNCHANGED <<meetings, frontend, list_outcome, transcripts,
                   next_transcript, warnings, surfaced, export_format>>
    /\ UNCHANGED <<attributionVars, ingestionVars, exportVars, clientVars,
                 promptVars, callVars>>

NextRun == FetchTranscripts \/ FetchDetail \/ CheckMeetings \/ Analyze \/ Export

SpecRun == InitRun /\ [][NextRun]_vars

(***************************************************************************)
(* get_transcripts page by page (fireflies_client.py lines 238-280)        *)
(* against an account that holds at most MaxSource transcripts and answers *)
(* a request with the transcripts after the first `skip`, at most `limit`  *)
(* of them; the limit argument is absent, 0 or at most MaxLimit, and one   *)
(* request of the call may fail.                                           *)
(***************************************************************************)
MaxSource == 5
MaxLimit == 3

\* config.py line 29
max_meetings_per_request == 50

\* line 239: `limit or settings.max_meetings_per_request`
PageLimit(lim) ==
    IF lim # None /\ lim.val # 0 THEN lim.val ELSE max_meetings_per_request

\* the "transcripts" of the answer to a request with these variables
Page(src, sk, n) ==
    SubSeq(src, sk + 1, IF sk + n < Len(src) THEN sk + n ELSE Len(src))

RequestEvent(sk, n) == [kind |-> "request", skip |-> sk, limit |-> n]
SleepEvent == [kind |-> "sleep", seconds |-> "0.5"]
IsRequest(e) == e.kind = "request"

\* a slip that would advance skip by one instead of by the page length
PageStepSkipByOne(all, sk, page, n) ==
    IF page = <<>> THEN [all |-> all, skip |-> sk, next |-> "done"]
    ELSE IF Len(page) < n
         THEN [all |-> all \o page, skip |-> sk, next |-> "done"]
         ELSE [all |-> all \o page, skip |-> sk + 1, next |-> "sleep"]

\* lines 265-278: what one received page does to all_transcripts and skip,
\* and whether the loop breaks or sleeps before the next request
PageStep(all, sk, page, n) ==
    IF page = <<>> THEN [all |-> all, skip |-> sk, next |-> "done"]
    ELSE IF Len(page) < n
         THEN [all |-> all \o page, skip |-> sk, next |-> "done"]
         ELSE [all |-> all \o page, skip |-> sk + Len(page), next |-> "sleep"]

\* a slip that would treat a failed request as an empty page
PageRequestSwallowed(outcome, page) == Return(page)

\* line 264: one request of the loop; nothing in get_transcripts catches
\* what _make_request raises
PageRequest(outcome, page) == MakeRequest(outcome, page)

InitPaging ==
    /\ AttributionIdle
    /\ RunIdle
    /\ ExportIdle
    /\ PromptIdle
    /\ CallIdle
    /\ response = None /\ analysis_data = None /\ result = None
    /\ meetings_count = 0 /\ lead_count = 0
    /\ raised = "none"
    /\ stage = "request"
    /\ \E n \in 0..MaxSource : source = [i \in 1..n |-> i]
    /\ limit \in {None} \cup {Some(n) : n \in 0..MaxLimit}
    /\ fail_at \in 0..(MaxSource + 1)
    /\ skip = 0
    /\ all_transcripts = <<>>
    /\ raw_speakers = <<>>

\* lines 263-275: one pass of the loop up to the sleep
RequestPage ==
    /\ stage = "request"
    /\ \E outcome \in RequestOutcomes :
         /\ (outcome = "ok") <=>
                (Len(SelectSeq(events, IsRequest)) + 1 # fail_at)
         /\ LET n == PageLimit(limit)
                out == PageRequest(outcome,
                           IF outcome = "ok" THEN Page(source, skip, n) ELSE <<>>)
                step == PageStep(all_transcripts, skip, out.result, n)
            IN /\ events' = Append(events, RequestEvent(skip, n))
               /\ IF out.raised # "none"
                  THEN /\ raised' = out.raised
                       /\ stage' = "raised"
                       /\ UNCHANGED <<skip, all_transcripts, returned>>
                  ELSE /\ all_transcripts' = step.all
                       /\ skip' = step.skip
                       /\ stage' = step.next
                       /\ returned' = IF step.next = "done" THEN Some(step.all)
                                      ELSE None
                       /\ UNCHANGED raised
    /\ UNCHANGED <<source, limit, fail_at, raw_speakers>>
    /\ UNCHANGED <<response, meetings_count, lead_count, analysis_data, result>>
    /\ UNCHANGED <<attributionVars, runVars, exportVars, promptVars>>

\* line 278
Sleep ==
    /\ stage = "sleep"
    /\ events' = Append(events, SleepEvent)
    /\ stage' = "request"
    /\ UNCHANGED returned
    /\ UNCHANGED <<attributionVars, response, meetings_count, lead_count,
                   analysis_data, raised, result, runVars, exportVars,
                   clientVars, promptVars>>

NextPaging == RequestPage \/ Sleep

SpecPaging == InitPaging /\ [][NextPaging]_vars

\* the loop is not suspended for ever: the request returns or raises and
\* the sleep ends
SpecPagingFair == SpecPaging /\ WF_vars(NextPaging)

(***************************************************************************)
(* _parse_transcript on the "speakers" array of a transcript (lines        *)
(* 304-313), followed by get_lead_statements on the parsed Meeting.  A raw  *)
(* speaker may lack its name key, carry null or a string, and may carry an *)
(* "is_host" key, which the source is free to send.                        *)
(***************************************************************************)
Missing == [missing |-> TRUE]
Unknown == <<"U", "n", "k", "n", "o", "w", "n">>

RawSpeaker ==
    [name : {Missing, None, Some(<<"a">>), Some(<<"A">>)},
     email : {None, Some(<<"a">>)},
     is_host : BOOLEAN]

\* a slip that would carry the source's flag into the Speaker
ParseSpeakerKeepingFlag(i, sp) ==
    [id |-> i,
     name |-> IF sp.name = Missing THEN Some(Unknown) ELSE sp.name,
     email |-> sp.email,
     is_host |-> sp.is_host]

\* lines 307-313: Speaker(id=..., name=sp.get("name", "Unknown"),
\* email=sp.get("email"), ...); is_host is not passed and takes the
\* dataclass default of line 23
ParseSpeaker(i, sp) ==
    [id |-> i,
     name |-> IF sp.name = Missing THEN Some(Unknown) ELSE sp.name,
     email |-> sp.email,
     is_host |-> FALSE]

InitFetched ==
    /\ RunIdle
    /\ ExportIdle
    /\ PromptIdle
    /\ CallIdle
    /\ response = None /\ analysis_data = None /\ result = None
    /\ meetings_count = 0 /\ lead_count = 0
    /\ raised = "none"
    /\ stage = "raw"
    /\ source = <<>> /\ limit = None /\ fail_at = 0
    /\ skip = 0 /\ all_transcripts = <<>>
    /\ \E n \in 0..MaxSpeakers : raw_speakers \in [1..n -> RawSpeaker]
    /\ speakers = <<>>
    /\ sentences \in SentenceLists
    /\ host_email \in Opt(EmailStr)
    /\ organizer_email \in {None, Some(<<"a">>)}
    /\ host_identifiers \in Opt(SeqUpTo(IdentifierStr, MaxIdentifiers))
    /\ host_speaker_ids = {}
    /\ lead_statements = <<>>
    /\ called = FALSE

\* lines 304-313 and 351-363: the Meeting gets the parsed speakers
ParseTranscriptSpeakers ==
    /\ stage = "raw"
    /\ speakers' = [i \in 1..Len(raw_speakers) |-> ParseSpeaker(i, raw_speakers[i])]
    /\ stage' = "parsed"
    /\ UNCHANGED <<sentences, host_email, organizer_email, host_identifiers,
                   host_speaker_ids, lead_statements, called>>
    /\ UNCHANGED <<response, meetings_count, lead_count, analysis_data, raised,
                   result>>
    /\ UNCHANGED <<runVars, exportVars, clientVars, promptVars, callVars>>

\* get_lead_statements on the Meeting that was fetched
GetFetchedLeadStatements == stage = "parsed" /\ GetLeadStatements

NextFetched == ParseTranscriptSpeakers \/ GetFetchedLeadStatements

SpecFetched == InitFetched /\ [][NextFetched]_vars

(***************************************************************************)
(* ReportExporter (exporter.py).  A line of the Markdown document is the   *)
(* text of its f-string with the values it interpolates; umlauts of the    *)
(* fixed texts are written ae, oe, ue.                                     *)
(***************************************************************************)
MaxExportRecords == 2

Fixed(text) == [fmt |-> text, args |-> <<>>]
Fmt(text, args) == [fmt |-> text, args |-> args]
Blank == Fixed("")

\* the truth value Python gives a value in `if value:`
PyTruthy(value) ==
    CASE value.t = "null" -> FALSE
      [] value.t = "num" -> value.v # 0
      [] value.t = "str" -> value.v # ""
      [] value.t = "arr" -> Len(value.v) # 0
      [] value.t = "obj" -> DOMAIN value.v # {}

\* the lines a loop appends: the concatenation of what each pass appends
RECURSIVE Flatten(_)
Flatten(passes) ==
    IF passes = <<>> THEN <<>> ELSE Head(passes) \o Flatten(Tail(passes))

\* `if value: lines.append(...)`
When(value, line) == IF PyTruthy(value) THEN <<line>> ELSE <<>>

\* lines 80-87
HeaderLines(r) ==
    <<Fixed("# Meeting-Analyse Report"), Blank,
      Fmt("**Erstellt:** {timestamp}", <<>>),
      Fmt("**Analysierte Meetings:** {}", <<r.meetings_analyzed>>),
      Fmt("**Lead-Aussagen:** {}", <<r.total_lead_statements>>),
      Blank, Fixed("---"), Blank>>

\* lines 108-111
QuoteLines(quote) ==
    <<Fmt("> quote {}", <<Get(quote, "quote", EmptyString)>>)>>
    \o When(Get(quote, "context", EmptyString),
            Fmt("> *{}*", <<Get(quote, "context", EmptyString)>>))

\* lines 94-112
ProfileLines(i, profile) ==
    <<Fmt("### Profil {}", <<i>>)>>
    \o When(profile.company_name, Fmt("- **Unternehmen:** {}", <<profile.company_name>>))
    \o When(profile.industry, Fmt("- **Branche:** {}", <<profile.industry>>))
    \o When(profile.decision_maker_role,
            Fmt("- **Entscheider-Rolle:** {}", <<profile.decision_maker_role>>))
    \o When(profile.business_context,
            Fmt("- **Geschaeftskontext:** {}", <<profile.business_context>>))
    \o When(profile.timeline_urgency,
            Fmt("- **Dringlichkeit:** {}", <<profile.timeline_urgency>>))
    \o (IF PyTruthy(profile.supporting_quotes)
        THEN <<Blank, Fixed("**Unterstuetzende Zitate:**")>>
             \o LET body(k) == QuoteLines(profile.supporting_quotes.v[k])
                IN  Flatten([each \in 1..Len(profile.supporting_quotes.v) |-> body(each)])
        ELSE <<>>)
    \o <<Blank>>

\* lines 90-112
CustomerProfilesSection(r) ==
    IF r.customer_profiles # <<>>
    THEN <<Fixed("## 1. Kunden-Insight-Profile"), Blank>>
         \o LET body(i) == ProfileLines(i, r.customer_profiles[i])
            IN  Flatten([each \in 1..Len(r.customer_profiles) |-> body(each)])
    ELSE <<>>

\* `cat = x.category or default` (lines 122, 152)
CategoryOr(value, default) == IF PyTruthy(value) THEN value ELSE JStr(default)

\* lines 120-125 and 150-155: the keys of by_category in insertion order,
\* i.e. the categories of the first k records in order of first appearance
RECURSIVE GroupKeys(_, _, _)
GroupKeys(records, default, k) ==
    IF k = 0 THEN <<>>
    ELSE LET before == GroupKeys(records, default, k - 1)
             cat == CategoryOr(records[k].category, default)
         IN  IF \E j \in 1..Len(before) : before[j] = cat
             THEN before ELSE Append(before, cat)

\* the records by_category holds for a key, in list order
GroupOf(records, default, cat) ==
    SelectSeq(records, LAMBDA x : CategoryOr(x.category, default) = cat)

\* lines 131-142
PainPointLines(pp) ==
    <<Fmt("**{}** (Prioritaet: {})", <<pp.description, pp.impact_level>>), Blank,
      Fmt("> quote {}", <<pp.direct_quote>>),
      Fmt("> - *{}*", <<pp.speaker>>), Blank>>
    \o When(pp.context, Fmt("**Kontext:** {}", <<pp.context>>))
    \o When(pp.desired_outcome,
            Fmt("**Gewuenschtes Ergebnis:** {}", <<pp.desired_outcome>>))
    \o When(pp.impact_statement, Fmt("**Auswirkung:** {}", <<pp.impact_statement>>))
    \o <<Blank>>

\* lines 115-142
PainPointsSection(r) ==
    IF r.pain_points # <<>>
    THEN <<Fixed("## 2. Pain Point Matrix"), Blank>>
         \o LET keys == GroupKeys(r.pain_points, "Sonstiges", Len(r.pain_points))
                group(g) ==
                    LET points == GroupOf(r.pain_points, "Sonstiges", keys[g])
                        body(i) == PainPointLines(points[i])
                    IN  <<Fmt("### {}", <<keys[g]>>), Blank>>
                        \o Flatten([each \in 1..Len(points) |-> body(each)])
            IN  Flatten([each \in 1..Len(keys) |-> group(each)])
    ELSE <<>>

\* lines 161-165
QuestionLines(q) ==
    <<Fmt("**Frage:** {}", <<q.text>>), Fmt("- *{}*", <<q.speaker>>)>>
    \o When(q.underlying_concern,
            Fmt("- **Zugrundeliegende Sorge:** {}", <<q.underlying_concern>>))
    \o <<Blank>>

\* lines 145-165
QuestionsSection(r) ==
    IF r.questions # <<>>
    THEN <<Fixed("## 3. Lead-Fragen"), Blank>>
         \o LET keys == GroupKeys(r.questions, "Allgemein", Len(r.questions))
                group(g) ==
                    LET questions == GroupOf(r.questions, "Allgemein", keys[g])
                        body(i) == QuestionLines(questions[i])
                    IN  <<Fmt("### {}", <<keys[g]>>), Blank>>
                        \o Flatten([each \in 1..Len(questions) |-> body(each)])
            IN  Flatten([each \in 1..Len(keys) |-> group(each)])
    ELSE <<>>

\* lines 172-185
ObjectionLines(obj) ==
    <<Fmt("### {}", <<obj.objection_text>>), Blank,
      Fmt("> quote {}", <<obj.direct_quote>>),
      Fmt("> - *{}*", <<obj.speaker>>), Blank>>
    \o When(obj.emotional_undertone,
            Fmt("**Emotionale Faerbung:** {}", <<obj.emotional_undertone>>))
    \o When(obj.root_cause, Fmt("**Ursache:** {}", <<obj.root_cause>>))
    \o When(obj.resolution_pathway,
            Fmt("**Loesungsweg:** {}", <<obj.resolution_pathway>>))
    \o When(obj.conversion_trigger,
            Fmt("**Conversion Trigger:** {}", <<obj.conversion_trigger>>))
    \o <<Blank>>

\* a slip that would emit the header whether or not there are objections
ObjectionsSectionUnguarded(r) ==
    <<Fixed("## 4. Einwand-Analyse"), Blank>>
    \o LET body(i) == ObjectionLines(r.objections[i])
       IN  Flatten([each \in 1..Len(r.objections) |-> body(each)])

\* lines 168-185
ObjectionsSection(r) ==
    IF r.objections # <<>>
    THEN <<Fixed("## 4. Einwand-Analyse"), Blank>>
         \o LET body(i) == ObjectionLines(r.objections[i])
            IN  Flatten([each \in 1..Len(r.objections) |-> body(each)])
    ELSE <<>>

\* lines 193-198: the keys of the dict `categories`, in order, and its values
LanguageCategories == <<"industry_term", "emotional", "power_word", "metaphor">>
LanguageCategoryName(key) ==
    CASE key = "industry_term" -> "Fachterminologie"
      [] key = "emotional" -> "Emotionale Sprache"
      [] key = "power_word" -> "Power Words"
      [] key = "metaphor" -> "Metaphern & Analogien"

\* lines 206-208
LanguagePatternLines(lp) ==
    <<Fmt("- **{}** - {}", <<lp.phrase, lp.speaker>>)>>
    \o When(lp.context, Fmt("  - Kontext: {}", <<lp.context>>))

\* lines 188-209: the header is guarded by the whole list, each group by the
\* patterns of its key
LanguageSection(r) ==
    IF r.language_patterns # <<>>
    THEN <<Fixed("## 5. Sprachanalyse"), Blank>>
         \o LET group(g) ==
                    LET patterns ==
                            SelectSeq(r.language_patterns,
                                LAMBDA lp : lp.category = JStr(LanguageCategories[g]))
                        body(i) == LanguagePatternLines(patterns[i])
                    IN  IF patterns # <<>>
                        THEN <<Fmt("### {}",
                                   <<LanguageCategoryName(LanguageCategories[g])>>),
                               Blank>>
                             \o Flatten([each \in 1..Len(patterns) |-> body(each)]) \o <<Blank>>
                        ELSE <<>>
            IN  Flatten([each \in 1..Len(LanguageCategories) |-> group(each)])
    ELSE <<>>

\* lines 212-219
ValuePropositionsSection(r) ==
    IF PyTruthy(r.value_propositions)
    THEN <<Fixed("## 6. Value Propositions"), Blank>>
         \o LET body(i) ==
                    LET vp == r.value_propositions.v[i]
                    IN  <<Fmt("**Kundenbeduerfnis:** {}",
                              <<Get(vp, "customer_need", EmptyString)>>),
                          Fmt("**Loesung:** {}",
                              <<Get(vp, "solution_alignment", EmptyString)>>),
                          Fmt("**Nutzenaussage:** {}",
                              <<Get(vp, "benefit_statement", EmptyString)>>),
                          Blank>>
            IN  Flatten([each \in 1..Len(r.value_propositions.v) |-> body(each)])
    ELSE <<>>

\* lines 222-230
MarketingSection(r) ==
    IF PyTruthy(r.marketing_recommendations)
    THEN <<Fixed("## 7. Marketing-Empfehlungen"), Blank>>
         \o LET body(i) ==
                    LET rec == r.marketing_recommendations.v[i]
                    IN  <<Fmt("### {}", <<Get(rec, "section", JStr("Allgemein"))>>)>>
                        \o When(Get(rec, "customer_quote", JNull),
                                Fmt("> quote {}", <<Get(rec, "customer_quote", JNull)>>))
                        \o <<Fmt("**Empfehlung:** {}",
                                 <<Get(rec, "recommended_message", EmptyString)>>),
                             Blank>>
            IN  Flatten([each \in 1..Len(r.marketing_recommendations.v) |-> body(each)])
    ELSE <<>>

\* lines 233-241
MessagingSection(r) ==
    IF PyTruthy(r.messaging_guidelines)
    THEN <<Fixed("## 8. Messaging-Leitfaden"), Blank>>
         \o LET body(i) ==
                    LET msg == r.messaging_guidelines.v[i]
                    IN  <<Fmt("**Begriff:** {}",
                              <<Get(msg, "effective_term", EmptyString)>>)>>
                        \o When(Get(msg, "customer_quote", JNull),
                                Fmt("> quote {}", <<Get(msg, "customer_quote", JNull)>>))
                        \o <<Fmt("**Empfehlung:** {}",
                                 <<Get(msg, "usage_recommendation", EmptyString)>>),
                             Blank>>
            IN  Flatten([each \in 1..Len(r.messaging_guidelines.v) |-> body(each)])
    ELSE <<>>

\* lines 244-249
ConversionTriggersSection(r) ==
    IF PyTruthy(r.conversion_triggers)
    THEN <<Fixed("## 9. Conversion Triggers"), Blank>>
         \o LET body(i) == <<Fmt("- {}", <<r.conversion_triggers.v[i]>>)>>
            IN  Flatten([each \in 1..Len(r.conversion_triggers.v) |-> body(each)])
         \o <<Blank>>
    ELSE <<>>

\* lines 75-251: the lines joined by "\n"
BuildMarkdown(r) ==
    HeaderLines(r) \o CustomerProfilesSection(r) \o PainPointsSection(r)
    \o QuestionsSection(r) \o ObjectionsSection(r) \o LanguageSection(r)
    \o ValuePropositionsSection(r) \o MarketingSection(r)
    \o MessagingSection(r) \o ConversionTriggersSection(r)

\* a sheet of the workbook: its title and its rows, top to bottom
Sheet(title, rows) == [title |-> title, rows |-> rows]

\* lines 277-286
OverviewSheet(r) ==
    Sheet("Uebersicht",
          <<<<"Meeting-Analyse Report">>, <<>>, <<"Erstellt:", "timestamp">>,
            <<"Analysierte Meetings:", r.meetings_analyzed>>,
            <<"Lead-Aussagen:", r.total_lead_statements>>>>)

\* lines 289-308
PainPointsSheet(r) ==
    IF r.pain_points # <<>>
    THEN LET row(pp) == <<pp.category, pp.description, pp.direct_quote,
                          pp.speaker, pp.impact_level, pp.context,
                          pp.desired_outcome>>
         IN  <<Sheet("Pain Points",
                     <<<<"Kategorie", "Beschreibung", "Zitat", "Sprecher",
                         "Prioritaet", "Kontext", "Gewuenschtes Ergebnis">>>>
                     \o [each \in 1..Len(r.pain_points) |-> row(r.pain_points[each])])>>
    ELSE <<>>

\* lines 311-328
QuestionsSheet(r) ==
    IF r.questions # <<>>
    THEN LET row(q) == <<q.text, q.speaker, q.category, q.underlying_concern,
                         q.context>>
         IN  <<Sheet("Fragen",
                     <<<<"Frage", "Sprecher", "Kategorie",
                         "Zugrundeliegende Sorge", "Kontext">>>>
                     \o [each \in 1..Len(r.questions) |-> row(r.questions[each])])>>
    ELSE <<>>

\* lines 331-350
ObjectionsSheet(r) ==
    IF r.objections # <<>>
    THEN LET row(obj) == <<obj.objection_text, obj.direct_quote, obj.speaker,
                           obj.emotional_undertone, obj.root_cause,
                           obj.resolution_pathway, obj.conversion_trigger>>
         IN  <<Sheet("Einwaende",
                     <<<<"Einwand", "Zitat", "Sprecher", "Emotionale Faerbung",
                         "Ursache", "Loesungsweg", "Conversion Trigger">>>>
                     \o [each \in 1..Len(r.objections) |-> row(r.objections[each])])>>
    ELSE <<>>

\* lines 363-372: category_names.get(lp.category, lp.category)
SheetCategoryName(category) ==
    CASE category = JStr("industry_term") -> JStr("Fachterminologie")
      [] category = JStr("emotional") -> JStr("Emotionale Sprache")
      [] category = JStr("power_word") -> JStr("Power Words")
      [] category = JStr("metaphor") -> JStr("Metaphern")
      [] OTHER -> category

\* lines 353-376
LanguageSheet(r) ==
    IF r.language_patterns # <<>>
    THEN LET row(lp) == <<SheetCategoryName(lp.category), lp.phrase, lp.speaker,
                          lp.context>>
         IN  <<Sheet("Sprachanalyse",
                     <<<<"Kategorie", "Ausdruck", "Sprecher", "Kontext">>>>
                     \o [each \in 1..Len(r.language_patterns) |-> row(r.language_patterns[each])])>>
    ELSE <<>>

\* lines 274-378: the sheets of the workbook that is saved
ExcelSheets(r) ==
    <<OverviewSheet(r)>> \o PainPointsSheet(r) \o QuestionsSheet(r)
    \o ObjectionsSheet(r) \o LanguageSheet(r)

(***************************************************************************)
(* The exporter on AnalysisResults with every combination of empty and     *)
(* non-empty sections, at most MaxExportRecords pain points and language   *)
(* patterns over known, unknown and defaulted categories.                  *)
(***************************************************************************)
PresentOrNot(record) == {<<>>, <<record>>}
PassThrough(element) == {EmptyArr, JArr(<<element>>)}

ExportPainPoints ==
    {BuildPainPoint(EmptyObj), BuildPainPoint(JObj("category" :> JStr("Technical")))}
ExportLanguagePatterns ==
    {BuildLanguagePattern(EmptyObj),
     BuildLanguagePattern(JObj("category" :> JStr("industry_term"))),
     BuildLanguagePattern(JObj("category" :> JStr("metaphor")))}

(***************************************************************************)
(* Paths.  A path text is its "/"-separated components in order; a         *)
(* component is the sequence of its pieces, so that a generated file name  *)
(* shows the prefix, the time stamp and the extension it was built from.   *)
(***************************************************************************)
Dot == <<".">>
NotDot(component) == component # Dot

\* str(Path(text)): pathlib drops the "." components of a path
PathStr(text) ==
    IF text # <<>> /\ SelectSeq(text, NotDot) = <<>> THEN <<Dot>>
    ELSE SelectSeq(text, NotDot)

\* settings.export_dir, "./exports" unless EXPORT_DIR is set
export_dir == <<Dot, <<"exports">>>>

\* datetime.now().strftime("%Y%m%d_%H%M%S") at two moments
Clock == {"20240101_120000", "20240101_120001"}

\* lines 30-33
GenerateFilename(prefix, extension, now) ==
    PathStr(export_dir \o <<<<prefix, "_", now, ".", extension>>>>)

\* `Path(filename) if filename else self._generate_filename(...)`, then
\* str(filepath): lines 46 and 53, 66 and 73, 263 and 379
ExportPath(fname, extension, now) ==
    IF Truthy(fname) THEN PathStr(fname.val)
    ELSE GenerateFilename("analyse", extension, now)

\* the filename argument: absent, "", "report.md", "./report.md"
ExportFilenames ==
    {None, Some(<<>>), Some(<<<<"report", ".", "md">>>>),
     Some(<<Dot, <<"report", ".", "md">>>>)}

\* ai_analyzer.py lines 97-101: the dict of the fields, the time stamp as text
ToDict(r) == [r EXCEPT !.timestamp = "isoformat"]

ResultWithIsoTimestamp(r) == [r EXCEPT !.timestamp = "isoformat"]

\* the AnalysisResult after to_dict: asdict (line 99) builds a new dict and
\* line 100 assigns into that dict
ResultAfterToDict(r) == r

InitExport ==
    /\ AttributionIdle
    /\ RunIdle
    /\ ClientIdle
    /\ PromptIdle
    /\ CallIdle
    /\ document = <<>> /\ workbook = <<>> /\ json_data = None
    /\ filename \in ExportFilenames
    /\ clock \in Clock
    /\ response = None /\ analysis_data = None
    /\ meetings_count = 1 /\ lead_count = 1
    /\ raised = "none"
    /\ stage = "start"
    /\ \E cps \in PresentOrNot(BuildCustomerProfile(JObj("company_name" :> JStr("ACME")))),
          qs \in PresentOrNot(BuildQuestion(EmptyObj)),
          objs \in PresentOrNot(BuildObjection(EmptyObj)),
          vps \in PassThrough(JObj("customer_need" :> JStr("Zeit"))),
          recs \in PassThrough(EmptyObj),
          msgs \in PassThrough(EmptyObj),
          trigs \in PassThrough(JStr("Preis")) :
        \E np \in 0..MaxExportRecords, nl \in 0..MaxExportRecords :
          \E pps \in [1..np -> ExportPainPoints],
             lps \in [1..nl -> ExportLanguagePatterns] :
            result = [NewAnalysisResult(1, 1) EXCEPT
                         !.customer_profiles = cps,
                         !.pain_points = pps,
                         !.questions = qs,
                         !.objections = objs,
                         !.language_patterns = lps,
                         !.value_propositions = vps,
                         !.marketing_recommendations = recs,
                         !.messaging_guidelines = msgs,
                         !.conversion_triggers = trigs,
                         !.top_pain_categories = TopPainCategories(pps),
                         !.common_questions = CommonQuestions(qs)]

\* lines 35-53
ExportToJson ==
    /\ stage = "start"
    /\ json_data' = Some(ToDict(result))
    /\ result' = ResultAfterToDict(result)
    /\ export_calls' = Append(export_calls, "export_to_json")
    /\ files_written' = Append(files_written, ExportPath(filename, "json", clock))
    /\ returned' = Some(ExportPath(filename, "json", clock))
    /\ stage' = "done"
    /\ UNCHANGED <<document, workbook, filename, clock, events>>
    /\ UNCHANGED <<meetings, frontend, list_outcome, transcripts, pc,
                   next_transcript, warnings, surfaced, reported, exit_status,
                   export_format>>
    /\ UNCHANGED <<response, meetings_count, lead_count, analysis_data, raised>>
    /\ UNCHANGED <<attributionVars, clientVars, promptVars>>

\* lines 55-73
ExportToMarkdown ==
    /\ stage = "start"
    /\ document' = BuildMarkdown(result)
    /\ export_calls' = Append(export_calls, "export_to_markdown")
    /\ files_written' = Append(files_written, ExportPath(filename, "md", clock))
    /\ returned' = Some(ExportPath(filename, "md", clock))
    /\ stage' = "done"
    /\ UNCHANGED <<workbook, json_data, filename, clock, events>>
    /\ UNCHANGED <<meetings, frontend, list_outcome, transcripts, pc,
                   next_transcript, warnings, surfaced, reported, exit_status,
                   export_format>>
    /\ UNCHANGED <<response, meetings_count, lead_count, analysis_data, raised,
                   result>>
    /\ UNCHANGED <<attributionVars, clientVars, promptVars>>

\* lines 253-379
ExportToExcel ==
    /\ stage = "start"
    /\ workbook' = ExcelSheets(result)
    /\ export_calls' = Append(export_calls, "export_to_excel")
    /\ files_written' = Append(files_written, ExportPath(filename, "xlsx", clock))
    /\ returned' = Some(ExportPath(filename, "xlsx", clock))
    /\ stage' = "done"
    /\ UNCHANGED <<document, json_data, filename, clock, events>>
    /\ UNCHANGED <<meetings, frontend, list_outcome, transcripts, pc,
                   next_transcript, warnings, surfaced, reported, exit_status,
                   export_format>>
    /\ UNCHANGED <<response, meetings_count, lead_count, analysis_data, raised,
                   result>>
    /\ UNCHANGED <<attributionVars, clientVars, promptVars>>

NextExport == ExportToJson \/ ExportToMarkdown \/ ExportToExcel

SpecExport == InitExport /\ [][NextExport]_vars

(***************************************************************************)
(* _build_result on parsed objects: one record category at a time, with    *)
(* every shape of value, arrays of at most MaxElements elements, and       *)
(* elements of at most MaxElementKeys keys.                                *)
(***************************************************************************)
MaxElements == 2
MaxElementKeys == 2

FieldValues == {JStr("Hoch"), EmptyArr}

\* the keys the prompt's schema asks for in an element of each category
ExpectedFields(cat) ==
    CASE cat = "customer_profiles" ->
            {"company_name", "industry", "company_size", "decision_maker_role",
             "purchasing_authority", "business_context", "current_solutions",
             "budget_indicators", "timeline_urgency", "supporting_quotes"}
      [] cat = "pain_points" ->
            {"category", "description", "direct_quote", "speaker",
             "impact_level", "context", "desired_outcome", "impact_statement"}
      [] cat = "questions" ->
            {"text", "speaker", "category", "underlying_concern", "context"}
      [] cat = "objections" ->
            {"objection_text", "direct_quote", "speaker", "emotional_undertone",
             "root_cause", "resolution_pathway", "conversion_trigger"}
      [] cat = "language_patterns" ->
            {"category", "phrase", "context", "speaker"}

\* an element may also carry a key the schema does not ask for
ElementKeys(cat) == ExpectedFields(cat) \cup {"usage_count"}
KeySets(cat) == {K \in SUBSET ElementKeys(cat) : Cardinality(K) <= MaxElementKeys}
DictElements(cat) == {JObj(f) : f \in UNION {[K -> FieldValues] : K \in KeySets(cat)}}
Elements(cat) == DictElements(cat) \cup {JStr("Hoch"), JNull}
NonArrayValues ==
    {JNull, JNum(1), EmptyString, JStr("Hoch"), EmptyObj, JObj("note" :> JNull)}

InitBuild ==
    /\ AttributionIdle
    /\ RunIdle
    /\ ExportIdle
    /\ ClientIdle
    /\ PromptIdle
    /\ CallIdle
    /\ response = None
    /\ meetings_count \in 1..MaxMeetings
    /\ lead_count \in 1..MaxLeadStatements
    /\ \/ analysis_data \in {JNull, EmptyArr, EmptyObj}
       \/ \E cat \in RecordCategories : \E v \in NonArrayValues :
             analysis_data = JObj(cat :> v)
       \/ \E cat \in RecordCategories : \E n \in 0..MaxElements :
             \E xs \in [1..n -> Elements(cat)] :
                analysis_data = JObj(cat :> JArr(xs))
    /\ raised = "none"
    /\ result = None
    /\ stage = "start"

\* one call of _build_result
BuildResultCall ==
    /\ stage = "start"
    /\ LET out == BuildResult(analysis_data, meetings_count, lead_count)
       IN  /\ raised' = out.raised
           /\ result' = out.result
    /\ stage' = "done"
    /\ UNCHANGED <<response, meetings_count, lead_count, analysis_data>>
    /\ UNCHANGED <<attributionVars, runVars, exportVars, clientVars,
                 promptVars, callVars>>

NextBuild == BuildResultCall

SpecBuild == InitBuild /\ [][NextBuild]_vars

(***************************************************************************)
(* _build_result on pain points and questions in numbers that make the    *)
(* aggregates count and cut: at most MaxPainPoints pain points over a few  *)
(* categories, at most MaxQuestions questions (more than the slice keeps). *)
(***************************************************************************)
MaxPainPoints == 3
MaxQuestions == 11

PainPointElements ==
    {JObj("category" :> JStr("Technical")), JObj("category" :> JStr("Cost")),
     EmptyObj}
QuestionElements == {JObj("text" :> JStr("Was kostet das?")), EmptyObj}

InitAggregate ==
    /\ AttributionIdle
    /\ RunIdle
    /\ ExportIdle
    /\ ClientIdle
    /\ PromptIdle
    /\ CallIdle
    /\ response = None
    /\ meetings_count \in 1..MaxMeetings
    /\ lead_count \in 1..MaxLeadStatements
    /\ \/ \E n \in 0..MaxPainPoints : \E xs \in [1..n -> PainPointElements] :
             analysis_data = JObj("pain_points" :> JArr(xs))
       \/ \E n \in 0..MaxQuestions : \E xs \in [1..n -> QuestionElements] :
             analysis_data = JObj("questions" :> JArr(xs))
    /\ raised = "none"
    /\ result = None
    /\ stage = "start"

\* a slip that would let every AnalysisResult share one dict of counts
CountsShared(previous) == previous

\* lines 379 and 90: every call constructs its own AnalysisResult, whose
\* top_pain_categories is a new empty dict (default_factory), whatever an
\* earlier result holds
CountsAtConstruction(previous) == <<>>

\* a second call of _build_result on the same parsed object
BuildResultAgain ==
    /\ stage = "done"
    /\ raised = "none"
    /\ LET out == BuildResult(analysis_data, meetings_count, lead_count)
       IN  /\ raised' = out.raised
           /\ result' =
                 [out.result EXCEPT
                     !.top_pain_categories =
                         CountCategories(out.result.pain_points, 1,
                             CountsAtConstruction(result.top_pain_categories))]
    /\ stage' = "again"
    /\ UNCHANGED <<response, meetings_count, lead_count, analysis_data>>
    /\ UNCHANGED <<attributionVars, runVars, exportVars, clientVars,
                   promptVars, callVars>>

NextAggregate == BuildResultCall \/ BuildResultAgain

SpecAggregate == InitAggregate /\ [][NextAggregate]_vars

(***************************************************************************)
(* Properties of response ingestion                                        *)
(***************************************************************************)
Done == stage = "done"

RecordListsEmpty(r) == \A cat \in RecordCategories : r[cat] = <<>>

\* C7: whatever the response text is, parsing and result building end in an
\* AnalysisResult and no exception leaves analyze_meetings.
C7_IngestionNeverRaises ==
    (Done /\ response.some) => (raised = "none" /\ result # NoResult)

\* the span from the first "{" to the last "}" of a text, if there is one
HasBraceSpan(text) ==
    /\ Positions(text, "{") # {}
    /\ Positions(text, "}") # {}
    /\ Min(Positions(text, "{")) < Max(Positions(text, "}"))
BraceSpan(text) ==
    SubSeq(text, Min(Positions(text, "{")), Max(Positions(text, "}")))
SpanParses(text) == HasBraceSpan(text) /\ JsonLoads(BraceSpan(text)).ok

\* C8: the parsed object is the parse of the whole text when that is valid
\* JSON; otherwise the parse of the span from the first "{" to the last "}"
\* when that span is valid JSON; otherwise the empty object, and then every
\* record list of the result is empty and nothing is raised.
C8_TwoStageExtraction ==
    (Done /\ response.some) =>
        LET text == response.val IN
        /\ JsonLoads(text).ok => analysis_data = JsonLoads(text).val
        /\ (~JsonLoads(text).ok /\ SpanParses(text))
              => analysis_data = JsonLoads(BraceSpan(text)).val
        /\ (~JsonLoads(text).ok /\ ~SpanParses(text))
              => /\ analysis_data = EmptyObj
                 /\ raised = "none"
                 /\ RecordListsEmpty(result)

\* C8 witness: the text is no JSON as a whole, and the object between its
\* preamble and its trailing notes is what gets parsed.
C8_Witness ==
    /\ Done
    /\ response.some
    /\ ~JsonLoads(response.val).ok
    /\ Len(response.val) = 6
    /\ response.val[1] = "text" /\ response.val[6] = "text"
    /\ analysis_data = JObj("pain_points" :> EmptyArr)
    /\ raised = "none"
    /\ result.pain_points = <<>>

\* a category key that is absent from the parsed object or holds no array
NoArrayAt(cat) ==
    \/ cat \notin DOMAIN analysis_data.v
    \/ analysis_data.v[cat].t # "arr"

\* C9: when a record-category key is absent or its value is not an array,
\* _build_result gives that category an empty record list and raises
\* nothing.
C9_NonArrayCategoryGivesEmptyList ==
    (/\ Done
     /\ analysis_data.t = "obj"
     /\ \A cat \in RecordCategories : NoArrayAt(cat))
        => (raised = "none" /\ RecordListsEmpty(result))

\* the default the field-mapping rule names for a field
StatedDefault(cat, f) ==
    CASE cat = "pain_points" /\ f = "impact_level" -> JStr("Mittel")
      [] cat = "pain_points" /\ f = "category" -> JStr("Sonstiges")
      [] cat = "questions" /\ f = "category" -> JStr("Allgemein")
      [] cat = "customer_profiles" /\ f \in {"current_solutions", "supporting_quotes"}
            -> EmptyArr
      [] OTHER -> EmptyString

\* the fields of a typed record of a category (dataclasses of lines 15-72)
RecordFields(cat) ==
    IF cat = "language_patterns"
    THEN ExpectedFields(cat) \cup {"usage_count"}
    ELSE ExpectedFields(cat)

\* C10: in a record built from an array element, an expected field whose
\* key is missing has its stated default, a present field has the element's
\* value, and keys that are not expected leave no trace in the record.
C10_FieldsDefaultedOrCopied ==
    (Done /\ raised = "none") =>
        \A cat \in RecordCategories :
            (cat \in DOMAIN analysis_data.v /\ analysis_data.v[cat].t = "arr") =>
                LET elems == analysis_data.v[cat].v IN
                /\ Len(result[cat]) = Len(elems)
                /\ \A i \in 1..Len(elems) :
                      /\ DOMAIN result[cat][i] = RecordFields(cat)
                      /\ \A f \in ExpectedFields(cat) :
                            result[cat][i][f] =
                                IF f \in DOMAIN elems[i].v
                                THEN elems[i].v[f]
                                ELSE StatedDefault(cat, f)
                      /\ cat = "language_patterns"
                            => result[cat][i]["usage_count"] = JNum(1)

\* C10 witness: a pain point element with a description and an unexpected
\* key yields a record with that description and the defaults elsewhere.
C10_Witness ==
    /\ Done
    /\ raised = "none"
    /\ "pain_points" \in DOMAIN analysis_data.v
    /\ analysis_data.v["pain_points"].t = "arr"
    /\ Len(analysis_data.v["pain_points"].v) = 1
    /\ DOMAIN analysis_data.v["pain_points"].v[1].v = {"description", "usage_count"}
    /\ Len(result.pain_points) = 1
    /\ result.pain_points[1].description = JStr("Hoch")
    /\ result.pain_points[1].impact_level = JStr("Mittel")
    /\ result.pain_points[1].category = JStr("Sonstiges")

(***************************************************************************)
(* Properties of result building                                           *)
(***************************************************************************)
\* the JSON type the prompt's schema gives a field of an element
SchemaType(cat, f) ==
    IF cat = "customer_profiles" /\ f \in {"current_solutions", "supporting_quotes"}
    THEN "arr" ELSE "str"

\* the array the parsed object holds for a category (none when the key is
\* absent)
InputArray(cat) ==
    IF cat \in DOMAIN analysis_data.v THEN analysis_data.v[cat].v ELSE <<>>

\* the parsed object matches the schema: every record category it carries
\* is an array of objects whose keys are schema keys with schema-typed values
MatchesSchema ==
    /\ analysis_data.t = "obj"
    /\ \A cat \in RecordCategories \cap DOMAIN analysis_data.v :
          /\ analysis_data.v[cat].t = "arr"
          /\ \A i \in 1..Len(analysis_data.v[cat].v) :
                LET el == analysis_data.v[cat].v[i] IN
                /\ el.t = "obj"
                /\ DOMAIN el.v \subseteq ExpectedFields(cat)
                /\ \A f \in DOMAIN el.v : el.v[f].t = SchemaType(cat, f)

\* C11: for a parsed object that matches the schema, _build_result returns
\* a result that has, per record category, as many records as the input
\* array has elements, and whose i-th record carries the fields of the i-th
\* element.
C11_RecordCountsAndOrderPreserved ==
    (Done /\ MatchesSchema) =>
        /\ raised = "none"
        /\ \A cat \in RecordCategories :
              /\ Len(result[cat]) = Len(InputArray(cat))
              /\ \A i \in 1..Len(InputArray(cat)) :
                    \A f \in DOMAIN InputArray(cat)[i].v :
                        result[cat][i][f] = InputArray(cat)[i].v[f]

\* C11 witness: two different question elements give two records in the
\* elements' order.
C11_Witness ==
    /\ Done
    /\ MatchesSchema
    /\ Len(InputArray("questions")) = 2
    /\ DOMAIN InputArray("questions")[1].v = {"text"}
    /\ DOMAIN InputArray("questions")[2].v = {"speaker"}
    /\ Len(result.questions) = 2
    /\ result.questions[1].text = JStr("Hoch")
    /\ result.questions[1].speaker = EmptyString
    /\ result.questions[2].speaker = JStr("Hoch")

\* the categories the pain points of a list carry
CategoriesOf(pain_points) ==
    {pain_points[i].category : i \in 1..Len(pain_points)}

\* how many pain points of a list carry a category
Carrying(pain_points, c) ==
    Cardinality({i \in 1..Len(pain_points) : pain_points[i].category = c})

\* the sum of the values of a dict of counts
RECURSIVE SumOver(_, _)
SumOver(counts, keys) ==
    IF keys = {} THEN 0
    ELSE LET k == CHOOSE x \in keys : TRUE
         IN  counts[k] + SumOver(counts, keys \ {k})

\* C12: in a returned result, the keys of top_pain_categories are exactly
\* the categories its pain points carry, each key maps to the number of
\* pain points carrying it, and the counts sum to the number of pain points.
C12_TopPainCategoriesCountThePainPoints ==
    (Done /\ raised = "none") =>
        LET top == result.top_pain_categories
            pps == result.pain_points
        IN  /\ DOMAIN top = CategoriesOf(pps)
            /\ \A c \in DOMAIN top : top[c] = Carrying(pps, c)
            /\ SumOver(top, DOMAIN top) = Len(pps)

\* C12 witness: categories Technical, Technical, Cost give
\* {Technical: 2, Cost: 1}.
C12_Witness ==
    /\ Done
    /\ raised = "none"
    /\ Len(result.pain_points) = 3
    /\ result.pain_points[1].category = JStr("Technical")
    /\ result.pain_points[2].category = JStr("Technical")
    /\ result.pain_points[3].category = JStr("Cost")
    /\ DOMAIN result.top_pain_categories = {JStr("Technical"), JStr("Cost")}
    /\ result.top_pain_categories[JStr("Technical")] = 2
    /\ result.top_pain_categories[JStr("Cost")] = 1

\* C13: in a returned result, common_questions holds the texts of the
\* first min(10, n) of the n questions, in list order.
C13_CommonQuestionsAreTheFirstTen ==
    (Done /\ raised = "none") =>
        LET n == Len(result.questions)
            kept == IF n < 10 THEN n ELSE 10
        IN  /\ Len(result.common_questions) = kept
            /\ \A i \in 1..kept :
                  result.common_questions[i] = result.questions[i].text

\* C13 witness: of eleven questions the first ten texts are kept and the
\* eleventh, which differs from the tenth, is not.
C13_Witness ==
    /\ Done
    /\ raised = "none"
    /\ Len(result.questions) = 11
    /\ Len(result.common_questions) = 10
    /\ result.questions[10].text = EmptyString
    /\ result.questions[11].text = JStr("Was kostet das?")
    /\ result.common_questions[10] = EmptyString
    /\ result.common_questions[1] = JStr("Was kostet das?")

(***************************************************************************)
(* Properties of analyze_meetings                                          *)
(***************************************************************************)
\* the number of sentences get_lead_statements returns over the first k
\* meetings
RECURSIVE TotalLeadStatements(_)
TotalLeadStatements(k) ==
    IF k = 0 THEN 0
    ELSE Len(GetLeadStatementsResult(meetings[k].speakers, meetings[k].sentences,
                                     meetings[k].host_email,
                                     meetings[k].organizer_email,
                                     host_identifiers))
         + TotalLeadStatements(k - 1)

\* C14: whenever analyze_meetings returns, meetings_analyzed is the number
\* of meetings passed in and total_lead_statements is the number of
\* sentences get_lead_statements returns over them, whatever the LLM said.
C14_CountsComeFromTheInputs ==
    (Done /\ raised = "none") =>
        /\ result.meetings_analyzed = Len(meetings)
        /\ result.total_lead_statements = TotalLeadStatements(Len(meetings))

\* C14 witness: two meetings with three lead statements and an LLM object
\* that names meetings_analyzed as 7; the result says 2 and 3.
C14_Witness ==
    /\ Done
    /\ raised = "none"
    /\ Len(meetings) = 2
    /\ response.some
    /\ analysis_data = Some(JObj("meetings_analyzed" :> JNum(7)))
    /\ result.meetings_analyzed = 2
    /\ result.total_lead_statements = 3

(***************************************************************************)
(* Properties of a front-end run                                           *)
(***************************************************************************)
\* the detail fetch of transcript i succeeds
Loads(i) == transcripts[i].detail = "ok" /\ transcripts[i].found

\* the whole batch fails: the source fails on the list, no transcript is
\* fetched, no detail can be loaded, or what is loaded has no lead statement
WholeBatchFailure ==
    \/ list_outcome # "ok"
    \/ transcripts = <<>>
    \/ \A i \in 1..Len(transcripts) : ~Loads(i)
    \/ \A i \in 1..Len(transcripts) : Loads(i) => ~transcripts[i].lead

\* C15: a CLI run that meets a whole-batch failure invokes no export
\* function and writes no report file.
C15_NoExportOnWholeBatchFailure ==
    (frontend = "cli" /\ WholeBatchFailure) =>
        (export_calls = <<>> /\ files_written = <<>>)

\* the transcripts among the first k whose detail fetch succeeds (ok = TRUE)
\* or fails (ok = FALSE), in list order
RECURSIVE Among(_, _)
Among(k, ok) ==
    IF k = 0 THEN <<>>
    ELSE IF Loads(k) = ok THEN Append(Among(k - 1, ok), k)
    ELSE Among(k - 1, ok)

\* how many transcripts the fetch loop has handled
Handled ==
    IF pc = "fetch_detail" THEN next_transcript - 1
    ELSE IF pc \in {"analyze", "export", "done"} THEN Len(transcripts)
    ELSE 0

MeetingIds == [j \in 1..Len(meetings) |-> meetings[j].id]

\* C16: in both front ends, the meetings collected are exactly the handled
\* transcripts whose detail fetch succeeded, in transcript-list order, and
\* each failed one is warned about and skipped while the loop goes on to the
\* end of the list.
C16_FailedDetailFetchSkipsOnlyThatMeeting ==
    /\ MeetingIds = Among(Handled, TRUE)
    /\ warnings = Among(Handled, FALSE)
    /\ pc = "analyze" => Handled = Len(transcripts)

\* C16 witness: of three transcripts the second fails; the analysis is
\* about to get the first and the third.
C16_Witness ==
    /\ pc = "analyze"
    /\ Len(transcripts) = 3
    /\ transcripts[2].detail = "transport_error"
    /\ MeetingIds = <<1, 3>>
    /\ warnings = <<2>>

\* C17: every failure of the transcript-list request leaves FirefliesClient
\* as FirefliesAPIError, so the CLI's handler for it reports the failure.
C17_ListFetchFailureIsFirefliesAPIError ==
    (pc = "done" /\ frontend = "cli" /\ list_outcome # "ok") =>
        (surfaced = "FirefliesAPIError" /\ reported = "Fireflies API Fehler")

(***************************************************************************)
(* Properties of the exports                                               *)
(***************************************************************************)
\* the nine section headers, by section number
SectionHeaders ==
    <<"## 1. Kunden-Insight-Profile", "## 2. Pain Point Matrix",
      "## 3. Lead-Fragen", "## 4. Einwand-Analyse", "## 5. Sprachanalyse",
      "## 6. Value Propositions", "## 7. Marketing-Empfehlungen",
      "## 8. Messaging-Leitfaden", "## 9. Conversion Triggers">>

IsSectionHeader(line) ==
    \E n \in 1..Len(SectionHeaders) : line.fmt = SectionHeaders[n]

SectionNumber(line) ==
    CHOOSE n \in 1..Len(SectionHeaders) : line.fmt = SectionHeaders[n]

HeaderPositions == {i \in 1..Len(document) : IsSectionHeader(document[i])}

\* the record list of a section is empty
SectionEmpty(n) ==
    CASE n = 1 -> result.customer_profiles = <<>>
      [] n = 2 -> result.pain_points = <<>>
      [] n = 3 -> result.questions = <<>>
      [] n = 4 -> result.objections = <<>>
      [] n = 5 -> result.language_patterns = <<>>
      [] n = 6 -> result.value_propositions = EmptyArr
      [] n = 7 -> result.marketing_recommendations = EmptyArr
      [] n = 8 -> result.messaging_guidelines = EmptyArr
      [] n = 9 -> result.conversion_triggers = EmptyArr

MarkdownBuilt == stage = "done" /\ document # <<>>
ExcelSaved == stage = "done" /\ workbook # <<>>

\* C18: the section headers of the document appear in the order of their
\* numbers 1..9, each at most once, and a section whose record list is empty
\* has no header.
C18_SectionHeadersOrderedAndOmittedWhenEmpty ==
    MarkdownBuilt =>
        /\ \A i, j \in HeaderPositions :
              i < j => SectionNumber(document[i]) < SectionNumber(document[j])
        /\ \A i \in HeaderPositions : ~SectionEmpty(SectionNumber(document[i]))

\* C18 witness: a document without objections has the headers of sections
\* 3 and 5, in that order, and no header of section 4.
C18_Witness ==
    /\ MarkdownBuilt
    /\ result.objections = <<>>
    /\ {SectionNumber(document[i]) : i \in HeaderPositions} = {3, 5}
    /\ \E i, j \in HeaderPositions :
          /\ i < j
          /\ SectionNumber(document[i]) = 3
          /\ SectionNumber(document[j]) = 5

\* the lines between a header and the next header (or the end)
SectionBody(i) ==
    {j \in (i + 1)..Len(document) :
        \A k \in HeaderPositions : k > i => j < k}

\* C19: every section header of the document is followed by at least one
\* rendered record (a line that is not blank) before the next section header
\* or the end of the document.
C19_NoEmptySectionHeader ==
    MarkdownBuilt =>
        \A i \in HeaderPositions :
            \E j \in SectionBody(i) : document[j] # Blank

\* the record list a data sheet is written from, by the sheet's title
SheetCategory(title) ==
    CASE title = "Pain Points" -> "pain_points"
      [] title = "Fragen" -> "questions"
      [] title = "Einwaende" -> "objections"
      [] title = "Sprachanalyse" -> "language_patterns"
      [] OTHER -> "customer_profiles"

\* C20: the saved workbook has the overview sheet and exactly one data sheet
\* per non-empty record category, none for an empty one, and each data sheet
\* has a header row and then one row per record.
C20_OneSheetPerNonEmptyCategory ==
    ExcelSaved =>
        /\ workbook[1].title = "Uebersicht"
        /\ \A cat \in RecordCategories :
              Cardinality({k \in 2..Len(workbook) :
                              SheetCategory(workbook[k].title) = cat})
                 = IF result[cat] # <<>> THEN 1 ELSE 0
        /\ \A k \in 2..Len(workbook) :
              Len(workbook[k].rows)
                 = 1 + Len(result[SheetCategory(workbook[k].title)])

(***************************************************************************)
(* Properties of the export functions' return value and argument           *)
(***************************************************************************)
ExtensionOf(function) ==
    CASE function = "export_to_json" -> "json"
      [] function = "export_to_markdown" -> "md"
      [] function = "export_to_excel" -> "xlsx"

Requests == SelectSeq(events, IsRequest)

\* the page the source sends for the i-th request of the call
PageOf(i) == Page(source, Requests[i].skip, Requests[i].limit)

RECURSIVE PagesUpTo(_)
PagesUpTo(i) == IF i = 0 THEN <<>> ELSE PagesUpTo(i - 1) \o PageOf(i)

Finished == stage \in {"done", "raised"}

\* C22: read as a maximum number of meetings, limit = L >= 1 would make
\* get_transcripts return at most L transcripts
C22_LimitBoundsTheNumberReturned ==
    (returned # None /\ limit # None /\ limit.val >= 1)
        => Len(returned.val) <= limit.val

PagingSteps ==
    /\ Requests # <<>> => Requests[1].skip = 0
    /\ \A i \in 2..Len(Requests) : Requests[i].skip = Len(PagesUpTo(i - 1))
    /\ \A i \in 1..(Len(Requests) - 1) :
          PageOf(i) # <<>> /\ Len(PageOf(i)) >= Requests[i].limit
    /\ stage = "done" =>
          /\ Requests # <<>>
          /\ \/ PageOf(Len(Requests)) = <<>>
             \/ Len(PageOf(Len(Requests))) < Requests[Len(Requests)].limit
          /\ returned = Some(PagesUpTo(Len(Requests)))

\* C27: the first request has skip 0 and every later one the number of
\* transcripts accumulated so far; the loop goes on after full pages only and
\* stops at the first page that is empty or shorter than the page limit; the
\* returned list is the pages in request order; and against a source that
\* holds finitely many transcripts the call ends
C27_PaginationAdvancesStopsAndTerminates ==
    [](PagingSteps) /\ <>(Finished)

C27_Witness ==
    /\ stage = "done" /\ limit = Some(2) /\ Len(Requests) = 3
    /\ Requests[3].skip = 4
    /\ returned = Some(<<1, 2, 3, 4, 5>>)

\* C28: the outside calls of one get_transcripts call are request, sleep,
\* request, ...: one sleep between two consecutive requests and none after
\* the last page; no page is requested twice; and the first failing request
\* ends the call with its exception, no list being returned
C28_RequestsAlternateWithDelaysAndFailureAborts ==
    /\ \A i \in 1..Len(events) :
          events[i].kind = IF i % 2 = 1 THEN "request" ELSE "sleep"
    /\ Finished => events # <<>> /\ events[Len(events)].kind = "request"
    /\ \A i, j \in 1..Len(Requests) :
          i # j => Requests[i].skip # Requests[j].skip
    /\ Len(Requests) >= fail_at /\ fail_at # 0 =>
          /\ stage = "raised" /\ raised # "none"
          /\ Len(Requests) = fail_at
          /\ returned = None
    /\ stage = "raised" => Len(Requests) = fail_at

C28_Witness ==
    /\ stage = "raised" /\ raised = "FirefliesAPIError"
    /\ fail_at = 3 /\ Len(events) = 5
    /\ all_transcripts = <<1, 2, 3, 4>>
    /\ returned = None

(***************************************************************************)
(* Properties of the provider call of analyze_meetings                     *)
(***************************************************************************)
ProviderCalls == {i \in 1..Len(events) : events[i].kind = "call_ai"}
ResultBuilds == {i \in 1..Len(events) : events[i].kind = "build_result"}

\* C23: analyze_meetings calls the provider exactly once when the meetings
\* hold a lead statement and never when the list is empty or no lead
\* statement exists; a failed call is not repeated; and _build_result runs
\* only after the call has returned or raised
C23_ProviderCalledOnceBeforeBuilding ==
    Done =>
        /\ Cardinality(ProviderCalls) =
              IF TotalLeadStatements(Len(meetings)) > 0 THEN 1 ELSE 0
        /\ \A b \in ResultBuilds : \E c \in ProviderCalls : c < b
        /\ (raised = "none" /\ TotalLeadStatements(Len(meetings)) > 0)
              => ResultBuilds # {}

C23_Witness ==
    /\ Done /\ response = None
    /\ Len(meetings) = 2 /\ TotalLeadStatements(2) = 3
    /\ events = <<[kind |-> "call_ai", ended |-> "raised"],
                  [kind |-> "build_result", ended |-> "returned"]>>

(***************************************************************************)
(* Properties of _format_statements                                        *)
(***************************************************************************)
\* the joined lines of the first k statements
FirstLines(k) == Join([i \in 1..k |-> Line(statements[i])])

\* C24: the returned string would have at most max_chars characters and be
\* the lines of the longest prefix of the statements that fits, in order
C24_FormattedStatementsFitTheBudget ==
    Done =>
        /\ Len(returned.val) <= max_chars
        /\ \E k \in 0..Len(statements) :
              /\ returned.val = FirstLines(k)
              /\ k < Len(statements) => Len(FirstLines(k + 1)) > max_chars

(***************************************************************************)
(* Properties of the enumerated record fields                              *)
(***************************************************************************)
ImpactLevels == {JStr("Hoch"), JStr("Mittel"), JStr("Niedrig")}
PatternCategories ==
    {JStr("industry_term"), JStr("emotional"), JStr("power_word"),
     JStr("metaphor")}

\* C25: every PainPoint of a built result would have an impact_level among
\* Hoch, Mittel, Niedrig and every LanguagePattern a category among
\* industry_term, emotional, power_word, metaphor, whatever the response held
C25_EnumeratedFieldsStayInTheirSets ==
    (Done /\ raised = "none") =>
        /\ \A i \in 1..Len(result.pain_points) :
              result.pain_points[i].impact_level \in ImpactLevels
        /\ \A i \in 1..Len(result.language_patterns) :
              result.language_patterns[i].category \in PatternCategories

MarkedAsHost(i) ==
    \E marker \in HostMarkers(host_identifiers, host_email, organizer_email) :
        /\ marker # <<>>
        /\ \/ Contains(marker, SpeakerLower(speakers[i]))
           \/ Contains(marker, EmailLower(speakers[i]))

\* C29: every Speaker of a parsed transcript has is_host = False, so a
\* speaker of a fetched meeting is excluded exactly when a marker occurs in
\* its name or email; and with no host identifier, no host_email and no
\* organizer_email every sentence of the meeting is a lead statement
C29_FetchedSpeakersAreNeverFlaggedHosts ==
    stage = "parsed" =>
        /\ Len(speakers) = Len(raw_speakers)
        /\ \A i \in 1..Len(speakers) : speakers[i].is_host = FALSE
        /\ called =>
              /\ host_speaker_ids =
                    {speakers[i].id : i \in {j \in 1..Len(speakers) : MarkedAsHost(j)}}
              /\ (/\ host_identifiers \in {None, Some(<<>>)}
                  /\ host_email = None /\ organizer_email = None)
                    => lead_statements = sentences

C29_Witness ==
    /\ stage = "parsed" /\ called
    /\ Len(raw_speakers) = 2
    /\ raw_speakers[1].is_host /\ raw_speakers[1].name = Missing
    /\ speakers[1].name = Some(Unknown)
    /\ host_identifiers = Some(<<>>)
    /\ host_email = None /\ organizer_email = None
    /\ Len(sentences) = 2 /\ sentences[1].speaker_id = 1
    /\ lead_statements = sentences

(***************************************************************************)
(* Properties of a CLI run whose provider call fails                       *)
(***************************************************************************)
\* the analysis of a CLI run has ended, the provider call having raised
\* on meetings that hold a lead statement
AnalyzedWithFailedCall ==
    /\ frontend = "cli" /\ response = None
    /\ pc \in {"export", "done"}
    /\ TotalLeadStatements(Len(meetings)) > 0

\* what the same run gives when the provider answers with an empty object
FoundNothing ==
    AnalyzeMeetingsResult(meetings, host_identifiers, Some(<<"{", "}">>))

\* C30: when the provider call raises, analyze_meetings still returns an
\* AnalysisResult with every record list empty and the counts of the
\* inputs, the same result as for an answer that holds nothing; the CLI goes
\* on to the export of the chosen format and, the file being written, ends
\* with status 0
C30_FailedProviderCallLooksLikeEmptyAnalysis ==
    AnalyzedWithFailedCall =>
        /\ raised = "none"
        /\ RecordListsEmpty(result)
        /\ result.meetings_analyzed = Len(meetings)
        /\ result.total_lead_statements = TotalLeadStatements(Len(meetings))
        /\ result = FoundNothing.result
        /\ pc = "done" =>
              /\ export_calls = <<ExportFunction(export_format)>>
              /\ files_written # <<>> =>
                    (exit_status = "0" /\ reported = "Analyse-Ergebnis")
              /\ files_written = <<>> => reported = "Export-Fehler"

C30_Witness ==
    /\ AnalyzedWithFailedCall /\ pc = "done"
    /\ Len(meetings) = 2
    /\ result.total_lead_statements = 2
    /\ export_calls = <<"export_to_markdown">>
    /\ files_written # <<>> /\ exit_status = "0"

====
